---- MODULE Spec2Model ----
(***************************************************************************)
(* Synthetic background-star field (pipe/syntstar.py): windowing,         *)
(* adaptive PSF radius, roll rotation, blurred PSF composition, frame     *)
(* rendering and the iterative background refiner.                        *)
(*                                                                         *)
(* Number representation.  The program works on floats; the model works   *)
(* on exact integers:                                                      *)
(*   - a detector coordinate or offset is an integer count of             *)
(*     1/UnitsPerPixel pixel (krn_scl = 0.3 is then exactly 3 units);     *)
(*   - a flux scale is an integer count of 1/FluxDen (1e-6);              *)
(*   - cos/sin of a roll angle are exact rationals n/TrigDen taken from   *)
(*     Pythagorean triples, so a rotation is exact;                       *)
(*   - a pixel value is an integer (flux units times PSF units).          *)
(*                                                                         *)
(* A float of the program stands within rounding error of the exact       *)
(* number the model has for it.  Where the program's result depends on    *)
(* the side of a boundary a computed float falls on (a comparison of two  *)
(* numbers that are equal in exact arithmetic, int() at a whole number),  *)
(* the side is an argument of the operator, a member of Round.            *)
(*                                                                         *)
(* Objects the program mutates in place (the model buffer, the arrays of  *)
(* the working catalog) live in heap and are reached through references.  *)
(***************************************************************************)
EXTENDS Integers, Sequences, FiniteSets, TLC

VARIABLES call,   \* the last call of a pure function / renderer: arguments and result
          inp,    \* the caller's values when refine_bg_model is called
          run,    \* run[r]: the frame of call r of refine_bg_model (arguments, locals, position)
          heap,   \* the arrays and lists the calls hold references to
          fits    \* the calls of psf_fit made so far: arguments and outcome

vars == <<call, inp, run, heap, fits>>

----------------------------------------------------------------------------
(* Generic helpers *)

Max(a, b) == IF a >= b THEN a ELSE b
Min(a, b) == IF a <= b THEN a ELSE b
Abs(a) == IF a >= 0 THEN a ELSE -a

\* ceil(num/den) for den > 0 (np.ceil on an exact rational)
Ceil(num, den) == -((-num) \div den)

\* the quotient num/den of two numbers whose quotient is a whole number; a
\* quotient that is not whole is outside the numbers the model has, and
\* nothing stands for it
Exact(num, den) == CHOOSE q \in {num \div den} : q * den = num

RECURSIVE SumSeq(_)
SumSeq(s) == IF s = <<>> THEN 0 ELSE s[1] + SumSeq(Tail(s))

----------------------------------------------------------------------------
(* Units *)

KrnSclNum == 3          \* krn_scl = 0.3 = KrnSclNum / KrnSclDen
KrnSclDen == 10
KrnRad == 3             \* krn_rad
UnitsPerPixel == KrnSclDen
FluxDen == 10^6         \* flux scales are counted in 1e-6

\* Python int(x) on a float: truncation toward zero; x in units, result in pixels
IntTrunc(xu) == IF xu >= 0 THEN xu \div UnitsPerPixel
                ELSE -((-xu) \div UnitsPerPixel)

\* the side of its exact number a computed float lies on: below (-1), on it
\* (0, the float is the number) or above (1)
Round == {-1, 0, 1}

\* a < b and a > b between two floats of the code, given the exact numbers lhs
\* and rhs they stand for: the order of the exact numbers where these differ
\* (a rounding error is far smaller than one unit), and otherwise the side
\* rnd of b that a lies on
FloatLess(lhs, rhs, rnd) == lhs < rhs \/ (lhs = rhs /\ rnd < 0)
FloatGreater(lhs, rhs, rnd) == lhs > rhs \/ (lhs = rhs /\ rnd > 0)

\* Python int(x) for a computed float x that stands for xu units and lies on
\* the side rnd of it: truncation toward zero, so at a whole number of pixels
\* other than 0 a float on the side of 0 gives the pixel before
IntOf(xu, rnd) ==
    IF xu % UnitsPerPixel # 0 \/ xu = 0 THEN IntTrunc(xu)
    ELSE IF xu > 0 /\ rnd < 0 THEN IntTrunc(xu) - 1
    ELSE IF xu < 0 /\ rnd > 0 THEN IntTrunc(xu) + 1
    ELSE IntTrunc(xu)

\* the sides the floats indexed by D can lie on when those indexed by T, and
\* no others, sit on a boundary
SignsOn(D, T) == { [d \in D |-> IF d \in T THEN g[d] ELSE 0] : g \in [T -> Round] }

----------------------------------------------------------------------------
(* find_inds, find_area_inds *)

\* mutant: the high-side source bound taken one too large
FindIndsOffByOne(x_len, x, radius) ==
    IF (x < -radius) \/ (x > x_len + radius) THEN <<0, 0, 0, 0>>
    ELSE LET i0 == IF x > radius THEN x - radius ELSE 0
             j0 == IF x > radius THEN 0 ELSE radius - x
             i1 == IF x + radius < x_len THEN x + radius + 1 ELSE x_len
             j1 == IF x + radius < x_len THEN 2*radius + 1
                   ELSE radius - x + x_len + 1
         IN  <<i0, i1, j0, j1>>

\* find_inds(x_len, x, radius) -> (i0, i1, j0, j1)
FindInds(x_len, x, radius) ==
    IF (x < -radius) \/ (x > x_len + radius) THEN <<0, 0, 0, 0>>
    ELSE LET i0 == IF x > radius THEN x - radius ELSE 0
             j0 == IF x > radius THEN 0 ELSE radius - x
             i1 == IF x + radius < x_len THEN x + radius + 1 ELSE x_len
             j1 == IF x + radius < x_len THEN 2*radius + 1
                   ELSE radius - x + x_len
         IN  <<i0, i1, j0, j1>>

None == <<>>

\* mutant: find_area_inds that tests the x axis only for a window off the frame
FindAreaIndsXOnly(x, y, shape, radius) ==
    LET i  == IntTrunc(x)
        i0 == i - radius
        i1 == i + radius
        j  == IntTrunc(y)
        j0 == j - radius
        j1 == j + radius
    IN  IF i0 >= shape[2] THEN None
        ELSE IF i1 <= 0 THEN None
        ELSE <<Max(i0, 0), Min(i1, shape[2]), Max(j0, 0), Min(j1, shape[1])>>

\* find_area_inds(x, y, shape, radius) -> (i0, i1, j0, j1) or None;
\* x, y in units, shape = <<height, width>>
FindAreaInds(x, y, shape, radius) ==
    LET i  == IntTrunc(x)
        i0 == i - radius
        i1 == i + radius
        j  == IntTrunc(y)
        j0 == j - radius
        j1 == j + radius
    IN  IF i0 >= shape[2] THEN None
        ELSE IF i1 <= 0 THEN None
        ELSE IF j0 >= shape[1] THEN None
        ELSE IF j1 <= 0 THEN None
        ELSE <<Max(i0, 0), Min(i1, shape[2]), Max(j0, 0), Min(j1, shape[1])>>

----------------------------------------------------------------------------
(* psf_radii *)

RadMin == 25
RadSpan == 75
RadMax == 100
FluxLo == 100           \* 1e-4 in units of 1e-6
FluxHi == 100000        \* 1e-1 in units of 1e-6

\* radii = 25 + 75*(fscales-1e-4)/(1e-1-1e-4), as the rational RadiiNum/RadiiDen
RadiiDen == FluxHi - FluxLo
RadiiNum(f) == RadMin * RadiiDen + RadSpan * (f - FluxLo)

\* mutant: truncation (floor) where the code rounds up
PsfRadiiFloor(f) ==
    Min(Max(RadiiNum(f), RadMin * RadiiDen), RadMax * RadiiDen) \div RadiiDen

\* psf_radii(fscales), one entry: ceil(minimum(maximum(radii, 25), 100))
PsfRadii(f) ==
    Ceil(Min(Max(RadiiNum(f), RadMin * RadiiDen), RadMax * RadiiDen), RadiiDen)

----------------------------------------------------------------------------
(* rotate_position, derotate_position *)

\* cos and sin of the roll angles 0..180 degrees the model uses, times TrigDen
CosTab == <<65, 63, 60, 56, 52, 39, 33, 25, 16, 0,
            -16, -25, -33, -39, -52, -56, -60, -63, -65>>
SinTab == <<0, 16, 25, 33, 39, 52, 56, 60, 63, 65,
            63, 60, 56, 52, 39, 33, 25, 16, 0>>
TrigDen == CosTab[1]
\* a roll angle is an index t in -MaxAngle..MaxAngle; -t is the opposite angle
MaxAngle == Len(CosTab) - 1
Angles == (-MaxAngle)..MaxAngle
Cos(t) == CosTab[Abs(t) + 1]
Sin(t) == IF t >= 0 THEN SinTab[t + 1] ELSE -SinTab[(-t) + 1]

\* mutant: a rotation matrix whose second row has the sign of sin flipped
RotatePositionBadSign(x, y, rolldeg) ==
    <<x * Cos(rolldeg) + y * Sin(rolldeg), x * Sin(rolldeg) + y * Cos(rolldeg)>>

\* rotate_position(x, y, rolldeg) -> (xroll, yroll), each times TrigDen
RotatePosition(x, y, rolldeg) ==
    LET cosa == Cos(rolldeg)
        sina == Sin(rolldeg)
    IN  <<x * cosa + y * sina, (-x) * sina + y * cosa>>

\* derotate_position(xroll, yroll, rolldegs)
DerotatePosition(xroll, yroll, rolldegs) == RotatePosition(xroll, yroll, -rolldegs)

----------------------------------------------------------------------------
(* The PSF model (pipe/psf_model.py) and MultiPSF *)

NumPsf == 6             \* len(psf_mod_Teff)
PsfIds == 0..(NumPsf - 1)

\* Intensity of PSF model id at offset (x, y) in units: positive, largest at
\* the centre, with a core a few pixels wide (wider for a larger id) on wings
\* that fall off over 120 pixels; a multiple of 3 so that the mean over 1 or 3
\* blur samples is exact.
PsfShape(id, x, y) ==
    3 * (1 + Max(0, 40 - (Abs(x) + Abs(y)) \div 30)
           + Max(0, 8 - (Abs(x) + 2 * Abs(y)) \div (4 + id)))

\* psf_mod(x, y, grid, circular) at one sample point; rad (pixels) is the
\* radius of the footprint the circular cutoff applies to
PsfMod(id, x, y, rad, circular) ==
    IF circular /\ x * x + y * y > (rad * UnitsPerPixel) * (rad * UnitsPerPixel)
    THEN 0
    ELSE PsfShape(id, x, y)

RECURSIVE MultiPsfAcc(_, _, _, _, _, _, _, _, _)
\* the loop of MultiPSF.__call__: ret += psf_mod(x-dxs[n], y-dys[n]) for n in range(from, N)
MultiPsfAcc(id, x, y, dxs, dys, rad, circular, n, ret) ==
    IF n > Len(dxs) THEN ret
    ELSE MultiPsfAcc(id, x, y, dxs, dys, rad, circular, n + 1,
                     ret + PsfMod(id, x - dxs[n], y - dys[n], rad, circular))

\* mutant: the accumulated sum returned without the division by N
MultiPSFNoDiv(id, x, y, dxs, dys, rad, circular) ==
    MultiPsfAcc(id, x, y, dxs, dys, rad, circular, 2,
                PsfMod(id, x - dxs[1], y - dys[1], rad, circular))

\* MultiPSF(psf_mod, dxs, dys)(x, y, circular=circular) at one sample point
MultiPSF(id, x, y, dxs, dys, rad, circular) ==
    LET ret == MultiPsfAcc(id, x, y, dxs, dys, rad, circular, 2,
                           PsfMod(id, x - dxs[1], y - dys[1], rad, circular))
        N   == Len(dxs)
    IN  Exact(ret, N)

----------------------------------------------------------------------------
(* Frames, kernels and the star renderers *)

\* a pixel value that is not a number (0/0, or anything computed from it)
NaN == -(2^30)
PixAdd(a, b) == IF a = NaN \/ b = NaN THEN NaN ELSE a + b
PixSub(a, b) == IF a = NaN \/ b = NaN THEN NaN ELSE a - b
PixMul(a, b) == IF a = NaN \/ b = NaN THEN NaN ELSE a * b

\* a frame is a sequence of rows; pixel (row j, column i), 0-based, is frame[j+1][i+1]
ZeroFrame(shape) == [py \in 1..shape[1] |-> [px \in 1..shape[2] |-> 0]]
FrameShape(frame) == <<Len(frame), Len(frame[1])>>

\* xkern = np.linspace(-krn_rad, krn_rad, 2*krn_rad + 1); xkmat, ykmat = meshgrid
KernSide == 2 * KrnRad + 1
KernGrid == [n \in 1..(KernSide * KernSide) |->
                <<((n - 1) % KernSide) - KrnRad, ((n - 1) \div KernSide) - KrnRad>>]
\* selk = (xkmat**2+ykmat**2) <= krn_rad**2
SelK(pt) == pt[1] * pt[1] + pt[2] * pt[2] <= KrnRad * KrnRad
KernSel == SelectSeq(KernGrid, SelK)
\* kx = krn_scl*xkmat[selk], ky = krn_scl*ykmat[selk], in units
Kx == [n \in 1..Len(KernSel) |-> KrnSclNum * KernSel[n][1]]
Ky == [n \in 1..Len(KernSel) |-> KrnSclNum * KernSel[n][2]]

\* work_cat.coeff[n]: None, or the vector num[k]/den (den = 0: not finite)
NoCoeff == [none |-> TRUE]
IsNone(c) == c.none

\* psf_image(x0f, y0f, dxs, dys, psf_mod, radius)[j][i]:
\* v = linspace(-radius, radius, 2*radius+1); psf(v-x0f, v-y0f, circular=True)
PsfImage(x0f, y0f, dxs, dys, id, radius, j, i) ==
    MultiPSF(id, (i - radius) * UnitsPerPixel - x0f, (j - radius) * UnitsPerPixel - y0f,
             dxs, dys, radius, TRUE)

RECURSIVE PsfFitAcc(_, _, _, _, _, _, _, _, _, _, _)
\* the loop of psf_fit_image: ret += kf[n]*psf_smear(v-kx[n], v-ky[n], circular=False)
PsfFitAcc(kf, kx, ky, dxs, dys, id, radius, j, i, n, ret) ==
    IF n > Len(kf) THEN ret
    ELSE PsfFitAcc(kf, kx, ky, dxs, dys, id, radius, j, i, n + 1,
            ret + (IF kf[n] = 0 THEN 0
                   ELSE kf[n] * MultiPSF(id, (i - radius) * UnitsPerPixel - kx[n],
                                         (j - radius) * UnitsPerPixel - ky[n],
                                         dxs, dys, radius, FALSE)))

\* psf_fit_image(kf, kx, ky, dxs, dys, psf_mod, radius)[j][i], times kf.den:
\* disc*ret with disc = xx**2+yy**2 <= radius**2
PsfFitImage(kf, kx, ky, dxs, dys, id, radius, j, i) ==
    IF (j - radius) * (j - radius) + (i - radius) * (i - radius) <= radius * radius
    THEN PsfFitAcc(kf, kx, ky, dxs, dys, id, radius, j, i, 1, 0)
    ELSE 0

\* the value flux*star_frame[j][i] that add_star accumulates
StarValue(flux, x0f, y0f, dxs, dys, id, kmat, radius, j, i) ==
    IF kmat = None
    THEN flux * PsfImage(x0f, y0f, dxs, dys, id, radius, j, i)
    ELSE IF kmat[1].den = 0 THEN NaN
    ELSE Exact(flux * PsfFitImage(kmat[1].num,
                                  [n \in 1..Len(kmat[2]) |-> x0f + kmat[2][n]],
                                  [n \in 1..Len(kmat[3]) |-> y0f + kmat[3][n]],
                                  dxs, dys, id, radius, j, i),
               kmat[1].den)

\* add_star(frame, flux, x0, y0, dxs, dys, psf_mod, kmat, radius): the frame after
\* frame[yi0:yi1,xi0:xi1] += flux*star_frame[yj0:yj1, xj0:xj1]
AddStar(frame, flux, x0, y0, dxs, dys, id, kmat, radius) ==
    LET shape == FrameShape(frame)
        x0i == IntTrunc(x0)
        y0i == IntTrunc(y0)
        x0f == x0 - x0i * UnitsPerPixel
        y0f == y0 - y0i * UnitsPerPixel
        xi  == FindInds(shape[2], x0i, radius)
        yi  == FindInds(shape[1], y0i, radius)
    IN  [py \in 1..shape[1] |-> [px \in 1..shape[2] |->
            IF /\ yi[1] <= py - 1 /\ py - 1 < yi[2]
               /\ xi[1] <= px - 1 /\ px - 1 < xi[2]
            THEN PixAdd(frame[py][px],
                        StarValue(flux, x0f, y0f, dxs, dys, id, kmat, radius,
                                  py - 1 - yi[1] + yi[3], px - 1 - xi[1] + xi[3]))
            ELSE frame[py][px]]]

\* numpy raises on the += of add_star when the destination slice and the source
\* slice have different shapes that do not broadcast
AddStarRaises(shape, x0, y0, radius) ==
    LET xi == FindInds(shape[2], IntTrunc(x0), radius)
        yi == FindInds(shape[1], IntTrunc(y0), radius)
        Bad(a) == a[2] - a[1] # a[4] - a[3] /\ a[4] - a[3] # 1
    IN  Bad(xi) \/ Bad(yi)

\* kmat for star n: (coeff, kx, ky) when kx is given and the star has coefficients
KmatOf(work_cat, n, usek) ==
    IF usek /\ ~IsNone(work_cat.coeff[n]) THEN <<work_cat.coeff[n], Kx, Ky>> ELSE None

\* make_single_star_frame(shape, work_cat, psf_mod, star_id, kx, ky)
MakeSingleStarFrame(shape, work_cat, id, star_id, usek) ==
    AddStar(ZeroFrame(shape), work_cat.fscale[star_id],
            work_cat.x[star_id], work_cat.y[star_id],
            work_cat.dxs[star_id], work_cat.dys[star_id], id,
            KmatOf(work_cat, star_id, usek), PsfRadii(work_cat.fscale[star_id]))

RECURSIVE MakeBgFrameLoop(_, _, _, _, _, _)
\* the loop of make_bg_frame over n in range(work_cat.catsize), from n on
MakeBgFrameLoop(frame, work_cat, psf_ids, skip, usek, n) ==
    IF n >= work_cat.catsize THEN frame
    ELSE IF n \in skip
         THEN MakeBgFrameLoop(frame, work_cat, psf_ids, skip, usek, n + 1)
         ELSE MakeBgFrameLoop(
                 AddStar(frame, work_cat.fscale[n], work_cat.x[n], work_cat.y[n],
                         work_cat.dxs[n], work_cat.dys[n], psf_ids[n],
                         KmatOf(work_cat, n, usek), PsfRadii(work_cat.fscale[n])),
                 work_cat, psf_ids, skip, usek, n + 1)

\* make_bg_frame(shape, work_cat, psf_ids, psfs, skip, kx, ky)
MakeBgFrame(shape, work_cat, psf_ids, skip, usek) ==
    MakeBgFrameLoop(ZeroFrame(shape), work_cat, psf_ids, skip, usek, 0)

\* star_bg.rotate_cat(rolldeg) for entry n: rotated (dx, dy) in units
RotateCat(cat, n, rolldeg) ==
    LET r == RotatePosition(cat.xpos[n], cat.ypos[n], rolldeg)
    IN  <<Exact(r[1], TrigDen), Exact(r[2], TrigDen)>>

\* pixel (py, px), 1-based, of a frame of the given shape
Pixels(shape) == (1..shape[1]) \X (1..shape[2])

\* the body of the loop of star_bg.image for star n (lines 160-179): the frame
\* after the accumulation of line 179, or the frame unchanged when the star is
\* skipped. rnd.x[n], rnd.y[n] are the sides the floats x0 + dx[n], y0 + dy[n]
\* handed to find_area_inds lie on (find_area_inds is handed a number with the
\* same int()); rnd.cut[<<n, py, px>>] is the side of psf_rad**2 that
\* xmat**2+ymat**2 lies on at pixel (py, px)
ImageStar(ret_img, cat, x0, y0, rolldeg, skip, limflux, n, rnd) ==
    LET shape   == FrameShape(ret_img)
        d       == RotateCat(cat, n, rolldeg)
        psf_rad == PsfRadii(cat.fscale[n])
        inds    == FindAreaInds(IntOf(x0 + d[1], rnd.x[n]) * UnitsPerPixel,
                                IntOf(y0 + d[2], rnd.y[n]) * UnitsPerPixel,
                                shape, psf_rad)
        r2      == (psf_rad * UnitsPerPixel) * (psf_rad * UnitsPerPixel)
    IN  IF n \in skip THEN ret_img
        ELSE IF cat.fscale[n] < limflux THEN ret_img
        ELSE IF inds = None THEN ret_img
        ELSE [py \in 1..shape[1] |-> [px \in 1..shape[2] |->
                IF /\ inds[3] <= py - 1 /\ py - 1 < inds[4]
                   /\ inds[1] <= px - 1 /\ px - 1 < inds[2]
                THEN LET ddx == ((px - 1) * UnitsPerPixel - x0) - d[1]
                         ddy == ((py - 1) * UnitsPerPixel - y0) - d[2]
                     IN  ret_img[py][px] + cat.fscale[n] *
                            (IF FloatGreater(ddx * ddx + ddy * ddy, r2,
                                             rnd.cut[<<n, py, px>>])
                             THEN 0
                             ELSE PsfMod(cat.psf_ids[n], ddx, ddy, psf_rad, TRUE))
                ELSE ret_img[py][px]]]

RECURSIVE ImageLoop(_, _, _, _, _, _, _, _, _)
\* the loop of star_bg.image over id_range, given as a sequence
ImageLoop(ret_img, cat, x0, y0, rolldeg, skip, limflux, id_range, rnd) ==
    IF id_range = <<>> THEN ret_img
    ELSE ImageLoop(ImageStar(ret_img, cat, x0, y0, rolldeg, skip, limflux,
                             id_range[1], rnd),
                   cat, x0, y0, rolldeg, skip, limflux, Tail(id_range), rnd)

NoId == -1      \* single_id=None

\* star_bg.image(x0, y0, rolldeg, shape, skip, limflux, single_id)
Image(cat, x0, y0, rolldeg, shape, skip, limflux, single_id, rnd) ==
    ImageLoop(ZeroFrame(shape), cat, x0, y0, rolldeg, skip, limflux,
              IF single_id = NoId THEN [k \in 1..cat.catsize |-> k - 1]
              ELSE <<single_id>>,
              rnd)

\* the sides the floats of a call of star_bg.image can lie on: x0 + dx[n] and
\* y0 + dy[n] at a whole number of pixels other than 0, and xmat**2+ymat**2
\* where it equals psf_rad**2, for the stars the call renders
ImageRoundings(cat, x0, y0, rolldeg, shape, skip, limflux, single_id) ==
    LET stars    == 0..(cat.catsize - 1)
        rendered == { n \in (IF single_id = NoId THEN stars ELSE {single_id}) :
                         n \notin skip /\ cat.fscale[n] >= limflux }
        Whole(xu) == xu % UnitsPerPixel = 0 /\ xu # 0
        cells    == { <<n, p[1], p[2]>> : n \in stars, p \in Pixels(shape) }
        OnCut(c) ==
            LET d   == RotateCat(cat, c[1], rolldeg)
                ddx == ((c[3] - 1) * UnitsPerPixel - x0) - d[1]
                ddy == ((c[2] - 1) * UnitsPerPixel - y0) - d[2]
                rad == PsfRadii(cat.fscale[c[1]]) * UnitsPerPixel
            IN  c[1] \in rendered /\ ddx * ddx + ddy * ddy = rad * rad
    IN  { [x |-> a, y |-> b, cut |-> c] :
             a \in SignsOn(stars, { n \in rendered :
                                      Whole(x0 + RotateCat(cat, n, rolldeg)[1]) }),
             b \in SignsOn(stars, { n \in rendered :
                                      Whole(y0 + RotateCat(cat, n, rolldeg)[2]) }),
             c \in SignsOn(cells, { c \in cells : OnCut(c) }) }

----------------------------------------------------------------------------
(* Calls of the pure functions, inputs drawn from bounded sets *)

MaxAxisLen == 4         \* largest axis length tried by find_inds
MaxWinRad == 3          \* largest window radius tried by find_inds
MaxCoord == 2           \* rotate_position: coordinates in -MaxCoord..MaxCoord

NoRuns == <<>>
NoInputs == <<>>
NoObjects == <<>>

InitPure ==
    /\ call = [op |-> "init"]
    /\ inp = NoInputs
    /\ run = NoRuns
    /\ heap = NoObjects
    /\ fits = {}

WinCentres == (-(MaxWinRad + 2))..(MaxAxisLen + MaxWinRad + 2)

CallFindInds ==
    /\ \E x_len \in 1..MaxAxisLen, x \in WinCentres, radius \in 0..MaxWinRad :
          call' = [op |-> "find_inds", x_len |-> x_len, x |-> x, radius |-> radius,
                   res |-> FindInds(x_len, x, radius)]
    /\ UNCHANGED <<inp, run, heap, fits>>

SpecWin == InitPure /\ [][CallFindInds]_vars

\* flux scales (units of 1e-6) psf_radii is tried on: below, at and above both
\* clamps, at exact integer radii (1432 -> 26) and around them
FluxSamples == {-5, 0, 1, 99, 100, 101, 1431, 1432, 1433, 20000, 50050,
                99999, 100000, 100001, 1000000}

CallPsfRadii ==
    /\ \E f1 \in FluxSamples, f2 \in FluxSamples :
          call' = [op |-> "psf_radii", fscales |-> <<f1, f2>>,
                   res |-> <<PsfRadii(f1), PsfRadii(f2)>>]
    /\ UNCHANGED <<inp, run, heap, fits>>

SpecRadii == InitPure /\ [][CallPsfRadii]_vars

CallRotate ==
    /\ \E x \in (-MaxCoord)..MaxCoord, y \in (-MaxCoord)..MaxCoord, t \in Angles :
          LET rot == RotatePosition(x, y, t)
          IN  call' = [op |-> "rotate", x |-> x, y |-> y, rolldeg |-> t,
                       rot |-> rot,
                       back |-> DerotatePosition(rot[1], rot[2], t),
                       derot |-> DerotatePosition(x, y, t)]
    /\ UNCHANGED <<inp, run, heap, fits>>

SpecRot == InitPure /\ [][CallRotate]_vars

\* blur offset lists (dxs, dys), in units
OffsetLists == { <<<<0>>, <<0>>>>,
                 <<<<4>>, <<-3>>>>,
                 <<<<-7, 0, 7>>, <<2, 0, -2>>>>,
                 <<<<-60, 0, 60>>, <<11, 0, -11>>>> }
SamplePoints == {-300, -55, 0, 20, 250}

CallMultiPSF ==
    /\ \E id \in PsfIds, x \in SamplePoints, y \in SamplePoints,
          off \in OffsetLists, circular \in BOOLEAN :
          call' = [op |-> "multipsf", id |-> id, x |-> x, y |-> y,
                   dxs |-> off[1], dys |-> off[2], rad |-> RadMin,
                   circular |-> circular,
                   res |-> MultiPSF(id, x, y, off[1], off[2], RadMin, circular)]
    /\ UNCHANGED <<inp, run, heap, fits>>

SpecPsf == InitPure /\ [][CallMultiPSF]_vars

----------------------------------------------------------------------------
(* Catalogs and calls of the renderers *)

FrameH == 2             \* frame height in pixels
FrameW == 3             \* frame width in pixels
FrameDims == <<FrameH, FrameW>>

Idx(seq) == [n \in 0..(Len(seq) - 1) |-> seq[n + 1]]

\* the static catalog of star_bg: positions relative to the target in units
\* (multiples of TrigDen, so that every rotation is exact), flux scales in
\* units of 1e-6 (above fscalemin), PSF indices
MkCat(xpos, ypos, fscale, psf_ids) ==
    [catsize |-> Len(fscale), xpos |-> Idx(xpos), ypos |-> Idx(ypos),
     fscale |-> Idx(fscale), psf_ids |-> Idx(psf_ids)]

StarCats == { MkCat(<<0, 65, -260>>, <<0, 0, 0>>, <<1000000, 50000, 1>>, <<2, 0, 5>>),
              MkCat(<<0, -260, 325>>, <<0, 65, -65>>, <<1000000, 20000, 500>>, <<2, 3, 1>>),
              MkCat(<<0, -260, 0>>, <<0, 0, -260>>, <<1000000, 50, 80>>, <<2, 4, 0>>) }

\* WorkCat.__init__(x, y, fscale, dxs, dys)
WorkCat(x, y, fscale, dxs, dys) ==
    [catsize |-> Len(x), x |-> Idx(x), y |-> Idx(y), fscale |-> Idx(fscale),
     dxs |-> Idx(dxs), dys |-> Idx(dys),
     coeff |-> [n \in 0..(Len(x) - 1) |-> NoCoeff]]

NoBlur == <<0>>
BlurX == <<-7, 0, 7>>
BlurY == <<2, 0, -2>>

\* a coefficient vector over the kernel support with the centre weight only
CentreCoeff(num, den) ==
    [none |-> FALSE, den |-> den,
     num |-> [n \in 1..Len(KernSel) |-> IF KernSel[n] = <<0, 0>> THEN num ELSE 0]]

WorkCats ==
    { WorkCat(<<10, 5, -260>>, <<5, 23, 0>>, <<1000000, 50000, 500>>,
              <<NoBlur, BlurX, NoBlur>>, <<NoBlur, BlurY, NoBlur>>),
      WorkCat(<<15, -270, 285>>, <<10, 0, 5>>, <<1000000, 50, 50>>,
              <<NoBlur, NoBlur, BlurX>>, <<NoBlur, NoBlur, BlurY>>),
      [WorkCat(<<10, 23, 5>>, <<5, 10, -260>>, <<1000000, 40000, 500>>,
               <<NoBlur, BlurX, NoBlur>>, <<NoBlur, BlurY, NoBlur>>)
           EXCEPT !.coeff[1] = CentreCoeff(3, 4)] }

WorkPsfIds == Idx(<<2, 0, 5>>)

\* frames add_star is applied to
StartFrames == { ZeroFrame(FrameDims),
                 [py \in 1..FrameH |-> [px \in 1..FrameW |-> 100 * py + px]] }

CallAddStar ==
    /\ call.op = "init"
    /\ \E wc \in WorkCats, frame \in StartFrames, usek \in BOOLEAN,
          radius \in {RadMin, RadMin + 5} :
          \E n \in 0..(wc.catsize - 1) :
             call' = [op |-> "add_star", before |-> frame, flux |-> wc.fscale[n],
                      x0 |-> wc.x[n], y0 |-> wc.y[n], radius |-> radius,
                      kmat |-> KmatOf(wc, n, usek),
                      raised |-> AddStarRaises(FrameShape(frame), wc.x[n], wc.y[n], radius),
                      after |-> AddStar(frame, wc.fscale[n], wc.x[n], wc.y[n],
                                        wc.dxs[n], wc.dys[n], WorkPsfIds[n],
                                        KmatOf(wc, n, usek), radius)]
    /\ UNCHANGED <<inp, run, heap, fits>>

CallMakeBgFrame ==
    /\ call.op = "init"
    /\ \E wc \in WorkCats, skip \in {{}, {0}, {1}, {0, 2}}, usek \in BOOLEAN :
          call' = [op |-> "make_bg_frame", work_cat |-> wc, skip |-> skip, usek |-> usek,
                   res |-> MakeBgFrame(FrameDims, wc, WorkPsfIds, skip, usek)]
    /\ UNCHANGED <<inp, run, heap, fits>>

CallImage ==
    /\ call.op = "init"
    /\ \E cat \in StarCats, pos \in {<<10, 5>>, <<15, 10>>, <<10, 10>>}, rolldeg \in {0, 4, 9, -9},
          skip \in {{}, {0}, {1}}, limflux \in {0, 10, 10000}, single_id \in {NoId, 1} :
          \E rnd \in ImageRoundings(cat, pos[1], pos[2], rolldeg, FrameDims, skip,
                                    limflux, single_id) :
             call' = [op |-> "image", cat |-> cat, x0 |-> pos[1], y0 |-> pos[2],
                      rolldeg |-> rolldeg, skip |-> skip, limflux |-> limflux,
                      single_id |-> single_id, rnd |-> rnd,
                      res |-> Image(cat, pos[1], pos[2], rolldeg, FrameDims, skip,
                                    limflux, single_id, rnd)]
    /\ UNCHANGED <<inp, run, heap, fits>>

NextRender == CallAddStar \/ CallMakeBgFrame \/ CallImage

SpecRender == InitPure /\ [][NextRender]_vars

----------------------------------------------------------------------------
(* The fit routine (pipe/psf.py) *)

RECURSIVE Gcd(_, _)
Gcd(a, b) == IF b = 0 THEN Abs(a) ELSE Gcd(b, a % Abs(b))

\* a kernel over the kernel grid with weight c on the centre and weight w on
\* the first corner of the grid (outside the disc support)
KernelOf(c, w) ==
    [n \in 1..Len(KernGrid) |->
        IF KernGrid[n] = <<0, 0>> THEN c ELSE IF n = 1 THEN w ELSE 0]

\* psf_fit raises
FitRaises == [raised |-> TRUE, fitstar_img |-> None, kmat |-> None]

\* psf_fit returns (fitstar_img, _, kmat, _, _)
FitReturns(fitstar_img, kmat) ==
    [raised |-> FALSE, fitstar_img |-> fitstar_img, kmat |-> kmat]

\* what a call of psf_fit for a frame of the given shape can give: it raises,
\* or it returns a reconstruction of the frame's shape and a kernel over the
\* kernel grid.  Of the returns the model has three: nothing fitted (an empty
\* reconstruction, a kernel that sums to 0), a reconstruction with a kernel
\* that has a quarter of its weight outside the disc support, and the
\* reconstruction last (what the caller took out of the model buffer, handed
\* back unchanged, with the kernel that keeps the flux scale)
FitOutcomes(shape, last, lastnorm) ==
    { FitRaises,
      FitReturns(ZeroFrame(shape), KernelOf(0, 0)),
      FitReturns([py \in 1..shape[1] |-> [px \in 1..shape[2] |-> 3000 * (py + px)]],
                 KernelOf(30000, 10000)),
      FitReturns(last, KernelOf(lastnorm, 0)) }

\* psf_fit is deterministic for given inputs: the call with the arguments a
\* can give out when no earlier call with the same arguments gave something
\* else
PsfFit(a, out, calls) == \A c \in calls : c.args = a => c.out = out

----------------------------------------------------------------------------
(* refine_bg_model *)

FitRadDefault == 25     \* fitrad = 25
BgFitOff == -1          \* bg_fit=-1

\* a reference to an object: its owner (0: the caller's objects that every
\* call is handed; r: the objects handed to call r alone) and its name
Ref(owner, name) == <<owner, name>>
SharedRef(name) == <<0, name>>

\* the working catalog as values: each list a reference of wc stands for
Deref(wc, h) ==
    [catsize |-> wc.catsize, x |-> h[wc.x], y |-> h[wc.y], fscale |-> h[wc.fscale],
     dxs |-> h[wc.dxs], dys |-> h[wc.dys], coeff |-> h[wc.coeff]]

\* mutant: every call works on one module-level model buffer (the buffer of
\* the first call) instead of the buffer it was handed
SubtractStarShared(st, h, rnd) ==
    LET star_id  == st.starids[st.k]
        wc       == Deref(st.work_cat, h)
        shape    == FrameShape(h[st.data_frame])
        star_img == MakeSingleStarFrame(shape, wc, st.psf_ids[star_id], star_id, TRUE)
        buf      == Ref(1, "model")
        h2       == [h EXCEPT ![buf] =
                       [py \in 1..shape[1] |-> [px \in 1..shape[2] |->
                           PixSub(h[buf][py][px],
                                  PixMul(st.psf_norm, star_img[py][px]))]]]
        psf_rad  == PsfRadii(wc.fscale[star_id])
        ex       == 2 * wc.x[star_id] - shape[2] * UnitsPerPixel
        ey       == 2 * wc.y[star_id] - shape[1] * UnitsPerPixel
        half     == Min(shape[1], shape[2]) * UnitsPerPixel
    IN  [st |-> [st EXCEPT
                   !.fit_frame = [py \in 1..shape[1] |-> [px \in 1..shape[2] |->
                                     PixSub(h2[st.data_frame][py][px],
                                            h2[buf][py][px])]],
                   !.psf_rad = psf_rad,
                   !.fitrad = IF FloatGreater(ex * ex + ey * ey, half * half,
                                              rnd[star_id])
                              THEN psf_rad ELSE FitRadDefault,
                   !.pc = "fit"],
         h |-> h2]

\* mutant: the residual for the fit taken before the star's contribution is
\* subtracted from the model buffer
SubtractStarStaleResidual(st, h, rnd) ==
    LET star_id  == st.starids[st.k]
        wc       == Deref(st.work_cat, h)
        shape    == FrameShape(h[st.data_frame])
        star_img == MakeSingleStarFrame(shape, wc, st.psf_ids[star_id], star_id, TRUE)
        h2       == [h EXCEPT ![st.model] =
                       [py \in 1..shape[1] |-> [px \in 1..shape[2] |->
                           PixSub(h[st.model][py][px],
                                  PixMul(st.psf_norm, star_img[py][px]))]]]
        psf_rad  == PsfRadii(wc.fscale[star_id])
        ex       == 2 * wc.x[star_id] - shape[2] * UnitsPerPixel
        ey       == 2 * wc.y[star_id] - shape[1] * UnitsPerPixel
        half     == Min(shape[1], shape[2]) * UnitsPerPixel
    IN  [st |-> [st EXCEPT
                   !.fit_frame = [py \in 1..shape[1] |-> [px \in 1..shape[2] |->
                                     PixSub(h[st.data_frame][py][px],
                                            h[st.model][py][px])]],
                   !.psf_rad = psf_rad,
                   !.fitrad = IF FloatGreater(ex * ex + ey * ey, half * half,
                                              rnd[star_id])
                              THEN psf_rad ELSE FitRadDefault,
                   !.pc = "fit"],
         h |-> h2]

\* mutant: the adaptive radius for the stars near the centre, the fixed one
\* for the stars far from it
SubtractStarFlipped(st, h, rnd) ==
    LET star_id  == st.starids[st.k]
        wc       == Deref(st.work_cat, h)
        shape    == FrameShape(h[st.data_frame])
        star_img == MakeSingleStarFrame(shape, wc, st.psf_ids[star_id], star_id, TRUE)
        h2       == [h EXCEPT ![st.model] =
                       [py \in 1..shape[1] |-> [px \in 1..shape[2] |->
                           PixSub(h[st.model][py][px],
                                  PixMul(st.psf_norm, star_img[py][px]))]]]
        psf_rad  == PsfRadii(wc.fscale[star_id])
        ex       == 2 * wc.x[star_id] - shape[2] * UnitsPerPixel
        ey       == 2 * wc.y[star_id] - shape[1] * UnitsPerPixel
        half     == Min(shape[1], shape[2]) * UnitsPerPixel
    IN  [st |-> [st EXCEPT
                   !.fit_frame = [py \in 1..shape[1] |-> [px \in 1..shape[2] |->
                                     PixSub(h2[st.data_frame][py][px],
                                            h2[st.model][py][px])]],
                   !.psf_rad = psf_rad,
                   !.fitrad = IF FloatGreater(ex * ex + ey * ey, half * half,
                                              rnd[star_id])
                              THEN FitRadDefault ELSE psf_rad,
                   !.pc = "fit"],
         h |-> h2]

\* the loop body up to the call of psf_fit (lines 233-247), for the star at
\* position k of starids: model -= psf_norm*star_img through the reference the
\* call was handed, fit_frame = data_frame - model, psf_rad, and fitrad from
\* dist > 0.5*np.min(data_frame.shape), compared as (2*dist)**2 with
\* min(shape)**2; rnd[star_id] is the side of 0.5*min(shape) the float dist
\* lies on when the two are equal in exact numbers
SubtractStar(st, h, rnd) ==
    LET star_id  == st.starids[st.k]
        wc       == Deref(st.work_cat, h)
        shape    == FrameShape(h[st.data_frame])
        star_img == MakeSingleStarFrame(shape, wc, st.psf_ids[star_id], star_id, TRUE)
        h2       == [h EXCEPT ![st.model] =
                       [py \in 1..shape[1] |-> [px \in 1..shape[2] |->
                           PixSub(h[st.model][py][px],
                                  PixMul(st.psf_norm, star_img[py][px]))]]]
        psf_rad  == PsfRadii(wc.fscale[star_id])
        ex       == 2 * wc.x[star_id] - shape[2] * UnitsPerPixel
        ey       == 2 * wc.y[star_id] - shape[1] * UnitsPerPixel
        half     == Min(shape[1], shape[2]) * UnitsPerPixel
    IN  [st |-> [st EXCEPT
                   !.fit_frame = [py \in 1..shape[1] |-> [px \in 1..shape[2] |->
                                     PixSub(h2[st.data_frame][py][px],
                                            h2[st.model][py][px])]],
                   !.psf_rad = psf_rad,
                   !.fitrad = IF FloatGreater(ex * ex + ey * ey, half * half,
                                              rnd[star_id])
                              THEN psf_rad ELSE FitRadDefault,
                   !.pc = "fit"],
         h |-> h2]

\* mutant: the evaluation radius fixed at the largest PSF radius, whatever the
\* star
FitArgsFixedDefrad(st, h) ==
    LET star_id == st.starids[st.k]
        wc      == st.work_cat
    IN  [psf |-> << [psf_mod |-> st.psf_ids[star_id],
                     dxs |-> h[wc.dxs][star_id], dys |-> h[wc.dys][star_id]] >>,
         fit_frame |-> st.fit_frame, noise |-> h[st.noise], mask |-> h[st.mask],
         xc |-> h[wc.x][star_id], yc |-> h[wc.y][star_id],
         fitrad |-> st.fitrad, defrad |-> RadMax,
         krn_scl |-> <<KrnSclNum, KrnSclDen>>, krn_rad |-> KrnRad,
         bg_fit |-> BgFitOff]

\* the arguments of the call of psf_fit for the current star (lines 256-261):
\* psf_fit([psf_smear], fit_frame, noise, mask, xc=work_cat.x[star_id],
\* yc=work_cat.y[star_id], fitrad=fitrad, defrad=psf_rad, krn_scl=krn_scl,
\* krn_rad=krn_rad, bg_fit=-1), psf_smear being MultiPSF(psf_mod, dxs, dys) of
\* lines 239-240
FitArgs(st, h) ==
    LET star_id == st.starids[st.k]
        wc      == st.work_cat
    IN  [psf |-> << [psf_mod |-> st.psf_ids[star_id],
                     dxs |-> h[wc.dxs][star_id], dys |-> h[wc.dys][star_id]] >>,
         fit_frame |-> st.fit_frame, noise |-> h[st.noise], mask |-> h[st.mask],
         xc |-> h[wc.x][star_id], yc |-> h[wc.y][star_id],
         fitrad |-> st.fitrad, defrad |-> st.psf_rad,
         krn_scl |-> <<KrnSclNum, KrnSclDen>>, krn_rad |-> KrnRad,
         bg_fit |-> BgFitOff]

\* work_cat.coeff[star_id] = kmat[selk] / knorm, as a fraction in lowest terms
\* (knorm = 0: not finite)
CoeffOf(kmat, knorm) ==
    LET sel == [n \in 1..Len(KernSel) |->
                   kmat[CHOOSE m \in 1..Len(KernGrid) : KernGrid[m] = KernSel[n]]]
        g   == IF knorm = 0 THEN 1
               ELSE LET G[n \in 0..Len(sel)] ==
                            IF n = 0 THEN Abs(knorm) ELSE Gcd(G[n - 1], sel[n])
                    IN  G[Len(sel)]
        sgn == IF knorm < 0 THEN -1 ELSE 1
    IN  [none |-> FALSE, den |-> sgn * (knorm \div g),
         num |-> [n \in 1..Len(sel) |-> sgn * (sel[n] \div g)]]

\* work_cat.fscale[star_id] *= knorm/(psf_norm*work_cat.fscale[star_id]): for a
\* flux scale of 0.0 the factor is knorm/0.0 (inf, or nan for knorm = 0) and
\* the product 0.0*inf is nan
RescaledFlux(fscale, knorm, psf_norm) ==
    IF fscale = 0 \/ fscale = NaN THEN NaN
    ELSE Exact(knorm, psf_norm)

\* mutant: model = fitstar_img in place of model += fitstar_img
AddBackOverwrites(st, h, fit) ==
    LET star_id == st.starids[st.k]
        wc      == st.work_cat
        knorm   == SumSeq(fit.kmat)
    IN  [st |-> [st EXCEPT !.k = st.k + 1, !.pc = "subtract"],
         h  |-> [h EXCEPT
                   ![st.model] = fit.fitstar_img,
                   ![wc.fscale][star_id] = RescaledFlux(@, knorm, st.psf_norm),
                   ![wc.coeff][star_id] = CoeffOf(fit.kmat, knorm)]]

\* model += fitstar_img and the catalog update (lines 262-265), each written
\* through the reference the call holds
AddBack(st, h, fit) ==
    LET star_id == st.starids[st.k]
        wc      == st.work_cat
        shape   == FrameShape(h[st.model])
        knorm   == SumSeq(fit.kmat)
    IN  [st |-> [st EXCEPT !.k = st.k + 1, !.pc = "subtract"],
         h  |-> [h EXCEPT
                   ![st.model] = [py \in 1..shape[1] |-> [px \in 1..shape[2] |->
                                     PixAdd(@[py][px], fit.fitstar_img[py][px])]],
                   ![wc.fscale][star_id] = RescaledFlux(@, knorm, st.psf_norm),
                   ![wc.coeff][star_id] = CoeffOf(fit.kmat, knorm)]]

\* mutant: the failure handled by putting the star's contribution back
\* before the exception leaves the function
FitRaisedRestoring(st, h) ==
    LET star_id  == st.starids[st.k]
        wc       == Deref(st.work_cat, h)
        shape    == FrameShape(h[st.model])
        star_img == MakeSingleStarFrame(shape, wc, st.psf_ids[star_id], star_id, TRUE)
    IN  [st |-> [st EXCEPT !.pc = "raised"],
         h  |-> [h EXCEPT ![st.model] =
                   [py \in 1..shape[1] |-> [px \in 1..shape[2] |->
                       PixAdd(@[py][px], PixMul(st.psf_norm, star_img[py][px]))]]]]

\* psf_fit raises: nothing catches it, refine_bg_model is left at once
FitRaised(st, h) == [st |-> [st EXCEPT !.pc = "raised"], h |-> h]

\* what the call of psf_fit of call r can give (the reconstruction "last" is
\* what line 235 took out of the buffer: data_frame - fit_frame is the buffer
\* after the subtraction)
FitOutcomesAt(st, h) ==
    LET star_id == st.starids[st.k]
        wc      == Deref(st.work_cat, h)
        shape   == FrameShape(h[st.data_frame])
        star_img == MakeSingleStarFrame(shape, wc, st.psf_ids[star_id], star_id, TRUE)
    IN  FitOutcomes(shape,
                    [py \in 1..shape[1] |-> [px \in 1..shape[2] |->
                        PixMul(st.psf_norm, star_img[py][px])]],
                    st.psf_norm * wc.fscale[star_id])

RefSubtract(r) ==
    /\ run[r].pc = "subtract"
    /\ run[r].k <= Len(run[r].starids)
    /\ LET nxt == SubtractStar(run[r], heap, inp.dist_rnd)
       IN  /\ run' = [run EXCEPT ![r] = nxt.st]
           /\ heap' = nxt.h
    /\ UNCHANGED <<call, inp, fits>>

RefFitAdd(r) ==
    /\ run[r].pc = "fit"
    /\ \E out \in FitOutcomesAt(run[r], heap) :
          /\ ~out.raised
          /\ PsfFit(FitArgs(run[r], heap), out, fits)
          /\ LET nxt == AddBack(run[r], heap, out)
             IN  /\ run' = [run EXCEPT ![r] = nxt.st]
                 /\ heap' = nxt.h
          /\ fits' = fits \cup {[args |-> FitArgs(run[r], heap), out |-> out]}
    /\ UNCHANGED <<call, inp>>

RefFitRaise(r) ==
    /\ run[r].pc = "fit"
    /\ PsfFit(FitArgs(run[r], heap), FitRaises, fits)
    /\ LET nxt == FitRaised(run[r], heap)
       IN  /\ run' = [run EXCEPT ![r] = nxt.st]
           /\ heap' = nxt.h
    /\ fits' = fits \cup {[args |-> FitArgs(run[r], heap), out |-> FitRaises]}
    /\ UNCHANGED <<call, inp>>

RefReturn(r) ==
    /\ run[r].pc = "subtract"
    /\ run[r].k > Len(run[r].starids)
    /\ run' = [run EXCEPT ![r].pc = "done"]
    /\ UNCHANGED <<call, inp, heap, fits>>

\* the call has returned or raised
Terminal(st) == st.pc \in {"done", "raised"}

\* the calls run one after the other: call r steps once the calls before it
\* have returned or raised
NextRefine ==
    \E r \in DOMAIN run :
        /\ \A q \in 1..(r - 1) : Terminal(run[q])
        /\ (RefSubtract(r) \/ RefFitAdd(r) \/ RefFitRaise(r) \/ RefReturn(r))

----------------------------------------------------------------------------
(* Runs of refine_bg_model *)

MaxIds == 3             \* longest starids list

\* working catalogs of three stars (star 0 is the target): one with every
\* footprint on the frame, one where stars 1 and 2 touch opposite edges of the
\* frame, one where star 1 lies wholly off the frame and star 2 lies at
\* (2.1, 1.8), at distance 1.0 = 0.5*min(shape) from the centre (1.5, 1.0)
RefCats ==
    { WorkCat(<<10, 23, -260>>, <<5, 10, 0>>, <<1000000, 50000, 500>>,
              <<NoBlur, BlurX, NoBlur>>, <<NoBlur, BlurY, NoBlur>>),
      WorkCat(<<15, -250, 270>>, <<10, 10, 10>>, <<1000000, 50, 50>>,
              <<NoBlur, NoBlur, NoBlur>>, <<NoBlur, NoBlur, NoBlur>>),
      WorkCat(<<10, -270, 21>>, <<5, 0, 18>>, <<1000000, 50, 40000>>,
              <<NoBlur, NoBlur, BlurX>>, <<NoBlur, NoBlur, BlurY>>) }

ScaleFrame(c, frame) ==
    [py \in 1..Len(frame) |-> [px \in 1..Len(frame[1]) |-> PixMul(c, frame[py][px])]]

\* the observed frame: the catalog's stars on a sky gradient
DataFrame(wc, psf_norm) ==
    LET truth == ScaleFrame(psf_norm, MakeBgFrame(FrameDims, wc, WorkPsfIds, {}, FALSE))
    IN  [py \in 1..FrameH |-> [px \in 1..FrameW |->
            truth[py][px] + 3000 * (py + 2 * px)]]

\* model buffers handed in: empty, or the background stars without the target
ModelFrames(wc, psf_norm) ==
    { ZeroFrame(FrameDims),
      ScaleFrame(psf_norm, MakeBgFrame(FrameDims, wc, WorkPsfIds, {0}, FALSE)) }

\* the mask (1 = usable pixel): all pixels but one
MaskFrame == [py \in 1..FrameH |-> [px \in 1..FrameW |->
                 IF py = 2 /\ px = 1 THEN 0 ELSE 1]]

NoiseFrame == [py \in 1..FrameH |-> [px \in 1..FrameW |-> 1]]

\* starids lists of up to MaxIds stars, in any order, a star at most twice (a
\* star refined twice with kernels that sum to 0 is left with the flux scale
\* nan, and a third refinement would take psf_radii of nan)
IdLists(catsize, maxlen) ==
    { ids \in UNION { [1..n -> 0..(catsize - 1)] : n \in 0..maxlen } :
         \A i \in DOMAIN ids : Cardinality({j \in DOMAIN ids : ids[j] = ids[i]}) <= 2 }

\* the stars of wc whose distance from the centre of the frame equals half the
\* smaller side of the frame in exact numbers
OnHalfSide(wc, shape) ==
    { n \in 0..(wc.catsize - 1) :
         (2 * wc.x[n] - shape[2] * UnitsPerPixel) * (2 * wc.x[n] - shape[2] * UnitsPerPixel)
            + (2 * wc.y[n] - shape[1] * UnitsPerPixel)
                 * (2 * wc.y[n] - shape[1] * UnitsPerPixel)
            = (Min(shape[1], shape[2]) * UnitsPerPixel)
                 * (Min(shape[1], shape[2]) * UnitsPerPixel) }

\* the values refine_bg_model is called with; dist_rnd[n] is the side of
\* 0.5*min(shape) the float dist of line 242 lies on for star n
Inputs ==
    UNION { UNION { { [work_cat |-> wc, psf_ids |-> WorkPsfIds,
                       data_frame |-> DataFrame(wc, psf_norm),
                       noise |-> NoiseFrame, mask |-> MaskFrame, model |-> model,
                       psf_norm |-> psf_norm, dist_rnd |-> rnd] :
                      model \in ModelFrames(wc, psf_norm),
                      rnd \in SignsOn(0..(wc.catsize - 1), OnHalfSide(wc, FrameDims)) } :
                    wc \in RefCats } :
            psf_norm \in {1, 2} }

\* mutant: the working flux scales are the static catalog's own array (no copy
\* in image_cat)
FscaleOfImageCatView(r) == SharedRef("star_bg.fscale")

\* fscale = self.fscale[:Nstars].copy() (line 191): the flux scales of the
\* working catalog of call r are an array of their own
FscaleOfImageCat(r) == Ref(r, "fscale")

\* the objects that exist when the calls in R start: the caller's data frame,
\* noise frame and mask and the static catalog's flux scales, and for each
\* call its model buffer and the lists of its working catalog
Objects(in, R) ==
    [a \in { SharedRef(n) : n \in {"data_frame", "noise", "mask", "star_bg.fscale"} }
              \cup { Ref(r, n) : r \in R,
                                 n \in {"model", "x", "y", "fscale", "dxs", "dys", "coeff"} }
       |-> CASE a[2] = "data_frame" -> in.data_frame
             [] a[2] = "noise" -> in.noise
             [] a[2] = "mask" -> in.mask
             [] a[2] = "star_bg.fscale" -> in.work_cat.fscale
             [] a[2] = "model" -> in.model
             [] a[2] = "x" -> in.work_cat.x
             [] a[2] = "y" -> in.work_cat.y
             [] a[2] = "fscale" -> in.work_cat.fscale
             [] a[2] = "dxs" -> in.work_cat.dxs
             [] a[2] = "dys" -> in.work_cat.dys
             [] a[2] = "coeff" -> in.work_cat.coeff]

\* the frame of call r of refine_bg_model(starids, data_frame, noise, mask,
\* model, psf_norm, work_cat, psf_ids, psfs) at its first statement; the locals
\* fit_frame, psf_rad, fitrad are not set yet (0)
StartRun(r, in, starids) ==
    [starids |-> starids, data_frame |-> SharedRef("data_frame"),
     noise |-> SharedRef("noise"), mask |-> SharedRef("mask"),
     model |-> Ref(r, "model"), psf_norm |-> in.psf_norm,
     work_cat |-> [catsize |-> in.work_cat.catsize,
                   x |-> Ref(r, "x"), y |-> Ref(r, "y"),
                   fscale |-> FscaleOfImageCat(r),
                   dxs |-> Ref(r, "dxs"), dys |-> Ref(r, "dys"),
                   coeff |-> Ref(r, "coeff")],
     psf_ids |-> in.psf_ids, k |-> 1, pc |-> "subtract",
     fit_frame |-> ZeroFrame(FrameShape(in.data_frame)), psf_rad |-> 0, fitrad |-> 0]

Init ==
    /\ call = [op |-> "refine_bg_model"]
    /\ inp \in Inputs
    /\ \E starids \in IdLists(inp.work_cat.catsize, MaxIds) :
          run = <<StartRun(1, inp, starids)>>
    /\ heap = Objects(inp, {1})
    /\ fits = {}

Next == NextRefine

Spec == Init /\ [][Next]_vars

Reverse(seq) == [i \in 1..Len(seq) |-> seq[Len(seq) + 1 - i]]

\* two calls of refine_bg_model, one after the other, on equal inputs: the
\* same data frame, noise frame and mask, and for each call a model buffer and
\* a working catalog of its own holding the same values; the second call with
\* the same or the reversed star list
InitPair ==
    /\ call = [op |-> "refine_bg_model"]
    /\ inp \in { in \in Inputs : in.psf_norm = 2 }
    /\ \E starids \in IdLists(inp.work_cat.catsize, 2) :
          \E other \in {starids, Reverse(starids)} :
             run = <<StartRun(1, inp, starids), StartRun(2, inp, other)>>
    /\ heap = Objects(inp, {1, 2})
    /\ fits = {}

SpecPair == InitPair /\ [][Next]_vars

\* the caller renders the background from the catalog refine_bg_model left:
\* make_bg_frame(shape, work_cat, psf_ids, psfs, skip, kx, ky), with or
\* without the kernel offsets
RenderBgFrame ==
    /\ call.op = "refine_bg_model"
    /\ Terminal(run[1])
    /\ \E skip \in {{}, {0}}, usek \in BOOLEAN :
          call' = [op |-> "make_bg_frame", skip |-> skip, usek |-> usek,
                   res |-> MakeBgFrame(FrameDims, Deref(run[1].work_cat, heap),
                                       run[1].psf_ids, skip, usek)]
    /\ UNCHANGED <<inp, run, heap, fits>>

\* make_single_star_frame(shape, work_cat, psf_mod, star_id, kx, ky), with or
\* without the kernel offsets
RenderSingleStar ==
    /\ call.op = "refine_bg_model"
    /\ Terminal(run[1])
    /\ \E star_id \in 0..(run[1].work_cat.catsize - 1), usek \in BOOLEAN :
          call' = [op |-> "make_single_star_frame", star_id |-> star_id, usek |-> usek,
                   res |-> MakeSingleStarFrame(FrameDims, Deref(run[1].work_cat, heap),
                                               run[1].psf_ids[star_id], star_id, usek)]
    /\ UNCHANGED <<inp, run, heap, fits>>

NextRefineRender == NextRefine \/ RenderBgFrame \/ RenderSingleStar

\* a call over a list of distinct stars, then renderings of its catalog
InitRefineRender ==
    /\ call = [op |-> "refine_bg_model"]
    /\ inp \in Inputs
    /\ \E starids \in IdLists(inp.work_cat.catsize, 2) :
          /\ \A i \in DOMAIN starids, j \in DOMAIN starids :
                i # j => starids[i] # starids[j]
          /\ run = <<StartRun(1, inp, starids)>>
    /\ heap = Objects(inp, {1})
    /\ fits = {}

SpecRefineRender == InitRefineRender /\ [][NextRefineRender]_vars

----------------------------------------------------------------------------
(* Claims about the pure functions *)

\* the window [x-radius, x+radius] holds no index of [0, x_len)
NoOverlap(x_len, x, radius) ==
    ~ \E i \in 0..(x_len - 1) : x - radius <= i /\ i <= x + radius

\* C4 (as stated): find_inds returns (0, 0, 0, 0) whenever the window
\* [center-radius, center+radius] contains no index of [0, axis_len), on the
\* low side and on the high side alike.
C4_AllZeroWhenOutside ==
    (call.op = "find_inds" /\ NoOverlap(call.x_len, call.x, call.radius))
        => call.res = <<0, 0, 0, 0>>

\* C5: for axis_len >= 1 and radius >= 0 find_inds returns a destination
\* range [i0, i1) and a source range [j0, j1) of equal length, inside
\* [0, axis_len] and [0, 2*radius+1], aligned by i0 - j0 = center - radius when
\* non-empty; a window fully inside the axis gives both ranges length 2*radius+1.
C5_RangesAgree ==
    call.op = "find_inds" =>
        LET i0 == call.res[1]
            i1 == call.res[2]
            j0 == call.res[3]
            j1 == call.res[4]
        IN  /\ i1 - i0 = j1 - j0
            /\ 0 <= i0 /\ i0 <= i1 /\ i1 <= call.x_len
            /\ 0 <= j0 /\ j0 <= j1 /\ j1 <= 2 * call.radius + 1
            /\ (i1 > i0 => i0 - j0 = call.x - call.radius)
            /\ (call.x - call.radius >= 0 /\ call.x + call.radius <= call.x_len - 1)
                   => (i1 - i0 = 2 * call.radius + 1 /\ j1 - j0 = 2 * call.radius + 1)

\* a window clipped on both sides of the axis, with a non-empty result
C5_Witness ==
    /\ call.op = "find_inds"
    /\ call.x - call.radius < 0
    /\ call.x + call.radius >= call.x_len
    /\ call.res[3] > 0
    /\ call.res[2] - call.res[1] = call.x_len

\* the radius as the claim writes it: clamp(ceil(raw), 25, 100)
ClampCeilRadius(f) == Min(Max(Ceil(RadiiNum(f), RadiiDen), RadMin), RadMax)

\* C8: psf_radii(f) = clamp(ceil(25 + 75*(f - 1e-4)/(1e-1 - 1e-4)), 25, 100),
\* an integer in [25, 100], non-decreasing in f, and psf_radii(0.02) = 40.
C8_RadiusFormula ==
    call.op = "psf_radii" =>
        /\ \A i \in 1..2 :
              /\ call.res[i] = ClampCeilRadius(call.fscales[i])
              /\ call.res[i] \in RadMin..RadMax
              /\ (call.fscales[i] = 20000 => call.res[i] = 40)
        /\ (call.fscales[1] <= call.fscales[2] => call.res[1] <= call.res[2])

C8_Witness ==
    /\ call.op = "psf_radii"
    /\ call.fscales = <<20000, 50050>>
    /\ call.res = <<40, 63>>

\* C9: derotate_position(rotate_position(x, y, t), t) = (x, y) (each rotation
\* carries the factor TrigDen) and derotate_position(x, y, t) is
\* rotate_position(x, y, -t).
C9_DerotateInverts ==
    call.op = "rotate" =>
        /\ call.back = <<call.x * TrigDen * TrigDen, call.y * TrigDen * TrigDen>>
        /\ call.derot = <<call.x * Cos(call.rolldeg) - call.y * Sin(call.rolldeg),
                          call.x * Sin(call.rolldeg) + call.y * Cos(call.rolldeg)>>

\* a rotation that moves the point, undone by the de-rotation
C9_Witness ==
    /\ call.op = "rotate"
    /\ call.x = 2 /\ call.y = -1 /\ call.rolldeg = 4
    /\ call.rot = <<2 * 52 - 39, -2 * 39 - 52>>
    /\ call.back = <<2 * TrigDen * TrigDen, -(TrigDen * TrigDen)>>

\* the sum over the offset samples, taken over the index set
RECURSIVE SumOver(_, _, _)
SumOver(S, F(_), acc) ==
    IF S = {} THEN acc
    ELSE LET i == CHOOSE j \in S : TRUE
         IN  SumOver(S \ {i}, F, acc + F(i))

\* C10: MultiPSF with N >= 1 offsets returns the arithmetic mean over i of
\* psf_mod(x - dx_i, y - dy_i); with the single offset (0, 0) it equals the
\* direct psf_mod evaluation.
C10_MeanOfShifted ==
    call.op = "multipsf" =>
        LET N == Len(call.dxs)
            Term(i) == PsfMod(call.id, call.x - call.dxs[i], call.y - call.dys[i],
                              call.rad, call.circular)
        IN  /\ N * call.res = SumOver(1..N, Term, 0)
            /\ (call.dxs = <<0>> /\ call.dys = <<0>>)
                   => call.res = PsfMod(call.id, call.x, call.y, call.rad, call.circular)

\* three offsets whose samples differ, and a non-zero mean
C10_Witness ==
    /\ call.op = "multipsf"
    /\ Len(call.dxs) = 3
    /\ call.res > 0
    /\ PsfMod(call.id, call.x - call.dxs[1], call.y - call.dys[1], call.rad, call.circular)
         # PsfMod(call.id, call.x - call.dxs[3], call.y - call.dys[3], call.rad, call.circular)

----------------------------------------------------------------------------
(* Claims about the renderers *)

\* the stars star_bg.image loops over
IdRange(c) == IF c.single_id = NoId THEN 0..(c.cat.catsize - 1) ELSE {c.single_id}

\* the centre pixel find_area_inds takes for star n in star_bg.image:
\* int(x0 + dx[n]), int(y0 + dy[n]) of the floats the call computed
ImageCentre(c, n) ==
    LET d == RotateCat(c.cat, n, c.rolldeg)
    IN  <<IntOf(c.x0 + d[1], c.rnd.x[n]), IntOf(c.y0 + d[2], c.rnd.y[n])>>

\* the footprint of star n in star_bg.image misses the frame on some axis
ImageNoOverlap(c, n) ==
    \/ NoOverlap(FrameW, ImageCentre(c, n)[1], PsfRadii(c.cat.fscale[n]))
    \/ NoOverlap(FrameH, ImageCentre(c, n)[2], PsfRadii(c.cat.fscale[n]))

\* C6: a star whose footprint misses the frame on at least one axis is a
\* silent no-op: add_star leaves every pixel unchanged and raises nothing;
\* find_area_inds returns None for it and star_bg.image then skips it (the
\* image is the one rendered with the star in the skip list).
C6_NoOverlapIsNoOp ==
    /\ (call.op = "add_star" /\
           (\/ NoOverlap(FrameW, IntTrunc(call.x0), call.radius)
            \/ NoOverlap(FrameH, IntTrunc(call.y0), call.radius)))
          => (call.after = call.before /\ ~call.raised)
    /\ call.op = "image" =>
          \A n \in IdRange(call) :
             ImageNoOverlap(call, n) =>
                /\ FindAreaInds(ImageCentre(call, n)[1] * UnitsPerPixel,
                                ImageCentre(call, n)[2] * UnitsPerPixel, FrameDims,
                                PsfRadii(call.cat.fscale[n])) = None
                /\ call.res = Image(call.cat, call.x0, call.y0, call.rolldeg, FrameDims,
                                    call.skip \cup {n}, call.limflux, call.single_id,
                                    call.rnd)

\* add_star on a non-zero frame for a star beyond the right edge in x whose
\* window does overlap in y
C6_Witness ==
    /\ call.op = "add_star"
    /\ call.before # ZeroFrame(FrameDims)
    /\ IntTrunc(call.x0) - call.radius >= FrameW
    /\ ~NoOverlap(FrameH, IntTrunc(call.y0), call.radius)
    /\ call.flux > 0
    /\ call.after = call.before

\* star n of star_bg.image has a frame pixel inside its footprint, the closed
\* disc of radius psf_rad around its position (the pixels the cut-off keeps)
ImageDiscOverlaps(c, n) ==
    LET d       == RotateCat(c.cat, n, c.rolldeg)
        psf_rad == PsfRadii(c.cat.fscale[n])
    IN  \E p \in Pixels(FrameDims) :
           LET ddx == ((p[2] - 1) * UnitsPerPixel - c.x0) - d[1]
               ddy == ((p[1] - 1) * UnitsPerPixel - c.y0) - d[2]
           IN  ddx * ddx + ddy * ddy
                  <= (psf_rad * UnitsPerPixel) * (psf_rad * UnitsPerPixel)

\* C7 (for star_bg.image): a star below the flux floor or in the skip set adds
\* nothing to the frame (the frame is the one rendered with the star skipped),
\* and every other star whose footprint overlaps the frame does contribute
\* (the frame is not the one rendered with the star skipped).
C7_FloorSkipAndTheRestRendered ==
    call.op = "image" =>
        \A n \in IdRange(call) :
           /\ (n \in call.skip \/ call.cat.fscale[n] < call.limflux)
                 => call.res = Image(call.cat, call.x0, call.y0, call.rolldeg, FrameDims,
                                     call.skip \cup {n}, call.limflux, call.single_id,
                                     call.rnd)
           /\ (n \notin call.skip /\ call.cat.fscale[n] >= call.limflux
                  /\ ImageDiscOverlaps(call, n))
                 => call.res # Image(call.cat, call.x0, call.y0, call.rolldeg, FrameDims,
                                     call.skip \cup {n}, call.limflux, call.single_id,
                                     call.rnd)

----------------------------------------------------------------------------
(* Claims about refine_bg_model *)

\* one star refined without failure from the frame and objects pre: lines
\* 233-265 with the result psf_fit gave for the arguments of line 256
RefinedFrom(pre) ==
    CHOOSE post \in { AddBack(sub.st, sub.h,
                              (CHOOSE c \in fits : c.args = FitArgs(sub.st, sub.h)).out) :
                         sub \in {SubtractStar(pre.st, pre.h, inp.dist_rnd)} } : TRUE

RECURSIVE RunPrefix(_, _)
\* the frame and the objects of call r after its first j stars were refined
\* without failure, worked out from the values the call was handed and the
\* results psf_fit gave
RunPrefix(r, j) ==
    IF j = 0 THEN [st |-> StartRun(r, inp, run[r].starids),
                   h  |-> Objects(inp, DOMAIN run)]
    ELSE CHOOSE post \in { RefinedFrom(pre) : pre \in {RunPrefix(r, j - 1)} } : TRUE

\* the model buffer and the working catalog of call r, as values
ModelOf(r) == heap[run[r].model]
CatOf(r) == Deref(run[r].work_cat, heap)

\* C1: when psf_fit fails for a star the failure reaches the caller; the model
\* buffer is the buffer left by the stars refined before, minus psf_norm times
\* the failed star's own rendering, with nothing added back; the failed star's
\* flux_scale and coeff are the ones it had when its turn came; the model and
\* catalog updates of the stars refined before it are kept.
C1_FailureLeavesSubtraction ==
    \A r \in DOMAIN run :
       run[r].pc = "raised" =>
          LET st      == run[r]
              star_id == st.starids[st.k]
              pre     == RunPrefix(r, st.k - 1)
              was     == Deref(pre.st.work_cat, pre.h)
              img     == MakeSingleStarFrame(FrameDims, was, inp.psf_ids[star_id],
                                             star_id, TRUE)
          IN  /\ \A py \in 1..FrameH, px \in 1..FrameW :
                    ModelOf(r)[py][px]
                       = PixSub(pre.h[pre.st.model][py][px],
                                PixMul(inp.psf_norm, img[py][px]))
              /\ CatOf(r).fscale[star_id] = was.fscale[star_id]
              /\ CatOf(r).coeff[star_id] = was.coeff[star_id]
              /\ CatOf(r) = was
              /\ \A j \in 1..(st.k - 1) : ~IsNone(CatOf(r).coeff[st.starids[j]])

\* the fit fails for the second star of the list, after the first was refined,
\* and the failed star's rendering has been taken out of the buffer
C1_Witness ==
    /\ run[1].pc = "raised"
    /\ run[1].k = 2
    /\ run[1].starids[1] # run[1].starids[2]
    /\ ModelOf(1) # RunPrefix(1, 1).h[run[1].model]
    /\ RunPrefix(1, 1).h[run[1].model] # inp.model
    /\ CatOf(1).fscale # inp.work_cat.fscale

Footprint(n) ==
    LET radius == PsfRadii(inp.work_cat.fscale[n])
        x0i    == IntTrunc(inp.work_cat.x[n])
        y0i    == IntTrunc(inp.work_cat.y[n])
    IN  { p \in Pixels(FrameDims) :
            /\ Abs((p[2] - 1) - x0i) <= radius
            /\ Abs((p[1] - 1) - y0i) <= radius }

\* the two runs refined the pair <<a, b>> and <<b, a>>, a # b, to the end
ReversedPairDone ==
    /\ Len(run) = 2
    /\ Len(run[1].starids) = 2
    /\ run[1].starids[1] # run[1].starids[2]
    /\ run[2].starids = Reverse(run[1].starids)
    /\ run[1].pc = "done" /\ run[2].pc = "done"

OverlapRegion == Footprint(run[1].starids[1]) \cap Footprint(run[1].starids[2])

\* the reconstruction psf_fit returned for the star at position j of call r
Reconstruction(r, j) ==
    LET pre == RunPrefix(r, j - 1)
        sub == SubtractStar(pre.st, pre.h, inp.dist_rnd)
    IN  (CHOOSE c \in fits : c.args = FitArgs(sub.st, sub.h)).out.fitstar_img

----------------------------------------------------------------------------
(* star_bg: read_starcat, assign_psf, image_cat, bright_star_ids *)

NotFinite == -1         \* a T_EFF that is nan: np.isfinite(Teff) is False
NoMaxRad == -1          \* maxrad=None
FscaleMinDefault == 10  \* fscalemin=1e-5, in units of 1e-6
DefaultPsfId == 2       \* self.default_psf_id = 2

\* a row of the catalog table.  RA and DEC are offsets, in units of the angle
\* that is 1/UnitsPerPixel pixel on the sky (pixel_scale/3600/UnitsPerPixel
\* degrees), from a reference point whose declination has an exact cosine;
\* MAG is counted in steps of 2.5 magnitudes (one step is a factor 10 in flux)
Row(ra, dec, distance, mag, teff, id) ==
    [RA |-> ra, DEC |-> dec, distance |-> distance, MAG |-> mag, T_EFF |-> teff,
     ID |-> id]

\* a catalog file: the name of its magnitude column, the roll-table index of
\* the angle DEC[0], its rows
CatFile(magcol, dec0, rows) == [magcol |-> magcol, dec0 |-> dec0, rows |-> rows]

RECURSIVE SearchSortedFrom(_, _, _, _)
\* np.searchsorted(a, v) (side='left'): the binary search between lo and hi
SearchSortedFrom(a, v, lo, hi) ==
    IF lo >= hi THEN lo
    ELSE LET mid == lo + ((hi - lo) \div 2)
         IN  IF a[mid + 1] < v THEN SearchSortedFrom(a, v, mid + 1, hi)
             ELSE SearchSortedFrom(a, v, lo, mid)

SearchSorted(a, v) == SearchSortedFrom(a, v, 0, Len(a))

\* 10**(-0.4*(mag - mag0)) in units of 1e-6, for magnitudes in steps of 2.5
FluxOfMag(mag, mag0) == 10 ^ (6 - (mag - mag0))

\* mutant: the selection fscale >= fscalemin
ReadStarcatInclusive(file, maxrad, fscalemin) ==
    LET cat == file.rows
        N   == IF maxrad = NoMaxRad THEN Len(cat)
               ELSE SearchSorted([i \in 1..Len(cat) |-> cat[i].distance], maxrad)
        fscale == [i \in 1..N |-> FluxOfMag(cat[i].MAG, cat[1].MAG)]
        dx  == [i \in 1..N |-> Exact((cat[1].RA - cat[i].RA) * Cos(file.dec0), TrigDen)]
        dy  == [i \in 1..N |-> cat[i].DEC - cat[1].DEC]
        sel == SelectSeq([i \in 1..N |-> i], LAMBDA i : fscale[i] >= fscalemin)
    IN  IF file.magcol \notin {"MAG_CHEOPS", "MAG_GAIA"} THEN [raised |-> TRUE]
        ELSE [raised |-> FALSE,
              xpos   |-> [k \in 1..Len(sel) |-> dx[sel[k]]],
              ypos   |-> [k \in 1..Len(sel) |-> dy[sel[k]]],
              fscale |-> [k \in 1..Len(sel) |-> fscale[sel[k]]],
              Teff   |-> [k \in 1..Len(sel) |-> cat[sel[k]].T_EFF],
              gaiaID |-> [k \in 1..Len(sel) |-> cat[sel[k]].ID]]

\* star_bg.read_starcat(starcatfile, maxrad, fscalemin)
\*   -> dx[sel], dy[sel], fscale[sel], Teff[sel], gaiaID[sel]
ReadStarcat(file, maxrad, fscalemin) ==
    LET cat == file.rows
        N   == IF maxrad = NoMaxRad THEN Len(cat)
               ELSE SearchSorted([i \in 1..Len(cat) |-> cat[i].distance], maxrad)
        fscale == [i \in 1..N |-> FluxOfMag(cat[i].MAG, cat[1].MAG)]
        dx  == [i \in 1..N |-> Exact((cat[1].RA - cat[i].RA) * Cos(file.dec0), TrigDen)]
        dy  == [i \in 1..N |-> cat[i].DEC - cat[1].DEC]
        sel == SelectSeq([i \in 1..N |-> i], LAMBDA i : fscale[i] > fscalemin)
    IN  IF file.magcol \notin {"MAG_CHEOPS", "MAG_GAIA"} THEN [raised |-> TRUE]
        ELSE [raised |-> FALSE,
              xpos   |-> [k \in 1..Len(sel) |-> dx[sel[k]]],
              ypos   |-> [k \in 1..Len(sel) |-> dy[sel[k]]],
              fscale |-> [k \in 1..Len(sel) |-> fscale[sel[k]]],
              Teff   |-> [k \in 1..Len(sel) |-> cat[sel[k]].T_EFF],
              gaiaID |-> [k \in 1..Len(sel) |-> cat[sel[k]].ID]]

\* self.psf_mod_Teff
PsfModTeff == <<3000, 4000, 5000, 6000, 8000, 10000>>

\* mutant: the last index of the smallest absolute difference
ArgMinAbsDiffLast(teff) ==
    LET diff == [i \in 1..Len(PsfModTeff) |-> Abs(PsfModTeff[i] - teff)]
    IN  (CHOOSE i \in 1..Len(diff) :
            /\ \A j \in 1..Len(diff) : diff[i] <= diff[j]
            /\ \A j \in (i + 1)..Len(diff) : diff[j] > diff[i]) - 1

\* np.absolute(self.psf_mod_Teff - Teff).argmin(): the first index (from 0) of
\* the smallest absolute difference
ArgMinAbsDiff(teff) ==
    LET diff == [i \in 1..Len(PsfModTeff) |-> Abs(PsfModTeff[i] - teff)]
    IN  (CHOOSE i \in 1..Len(diff) :
            /\ \A j \in 1..Len(diff) : diff[i] <= diff[j]
            /\ \A j \in 1..(i - 1) : diff[j] > diff[i]) - 1

\* star_bg.assign_psf: psf_ids, one per catalog star; psfs is the list of the
\* len(psf_mod_Teff) PSF models, psfs[psf_ids[n]] the model of star n
AssignPsf(Teff) ==
    [n \in 1..Len(Teff) |->
        IF Teff[n] # NotFinite THEN ArgMinAbsDiff(Teff[n]) ELSE DefaultPsfId]

\* star_bg.__init__: the object after read_starcat and assign_psf
StarBg(cat) ==
    [catsize |-> Len(cat.fscale),
     xpos |-> Idx(cat.xpos), ypos |-> Idx(cat.ypos), fscale |-> Idx(cat.fscale),
     Teff |-> Idx(cat.Teff), gaiaID |-> Idx(cat.gaiaID),
     psf_ids |-> Idx(AssignPsf(cat.Teff))]

ResolutionDefault == 2  \* resolution=0.2, in units of 1/10 pixel

\* xpos[n]**2 + ypos[n]**2 for every n, in units squared
Dist2(sb) == [n \in 0..(sb.catsize - 1) |->
                 sb.xpos[n] * sb.xpos[n] + sb.ypos[n] * sb.ypos[n]]

\* the stars whose distance from the target equals one of the radii (pixels)
\* in exact numbers; the distance 0 of a star at (0, 0) is an exact float
AtRadius(sb, radii) ==
    { n \in 0..(sb.catsize - 1) :
         /\ Dist2(sb)[n] # 0
         /\ \E rad \in radii :
               rad >= 0 /\ Dist2(sb)[n] = (rad * UnitsPerPixel) * (rad * UnitsPerPixel) }

RECURSIVE SearchSortedRounded(_, _, _, _, _)
\* np.searchsorted(a, v) (side='left') between lo and hi, for floats a[n] that
\* lie on the side rnd[n] of the numbers the model has for them
SearchSortedRounded(a, v, rnd, lo, hi) ==
    IF lo >= hi THEN lo
    ELSE LET mid == lo + ((hi - lo) \div 2)
         IN  IF FloatLess(a[mid], v, rnd[mid])
             THEN SearchSortedRounded(a, v, rnd, mid + 1, hi)
             ELSE SearchSortedRounded(a, v, rnd, lo, mid)

\* rotate_cat(rolldeg, maxrad): the number of leading entries that are rotated,
\* Nmax = np.searchsorted(r2, maxrad**2) (lines 108-111); rnd[n] is the side of
\* its number the float r2[n] lies on
RotateCatCount(sb, maxrad, rnd) ==
    IF maxrad = NoMaxRad THEN sb.catsize
    ELSE SearchSortedRounded(Dist2(sb),
                             (maxrad * UnitsPerPixel) * (maxrad * UnitsPerPixel),
                             rnd, 0, sb.catsize)

\* The blur angle blurdeg is counted in steps of BlurStep = atan(3/4) =
\* 36.8699 degrees = 0.6435011 rad (the angle of index 4 of the roll table):
\* the angles 0.5*blurdeg*linspace(-1, 1, N) of the blur samples are then whole
\* multiples k of BlurStep, and cos and sin of k*BlurStep are whole numbers
\* over FineDen.
FineCosTab == <<625, 500, 175, -220, -527>>
FineSinTab == <<0, 375, 600, 585, 336>>
FineDen == FineCosTab[1]
FineCos(k) == FineCosTab[Abs(k) + 1]
FineSin(k) == IF k >= 0 THEN FineSinTab[k + 1] ELSE -FineSinTab[(-k) + 1]
\* the multiples -MaxFine..MaxFine of BlurStep have cos and sin
MaxFine == Len(FineCosTab) - 1

\* rotate_position(x, y, angle) for the angle k*BlurStep
RotateFine(x, y, k) ==
    <<Exact(x * FineCos(k) + y * FineSin(k), FineDen),
      Exact((-x) * FineSin(k) + y * FineCos(k), FineDen)>>

\* BlurStep in units of 1e-5 rad lies between BlurStepLo and BlurStepHi
BlurStepLo == 64350
BlurStepHi == 64351
RadDen == 10^5

RECURSIVE SqrtBisect(_, _, _)
\* the largest r in lo..hi with r*r <= n (lo*lo <= n < (hi+1)*(hi+1))
SqrtBisect(n, lo, hi) ==
    IF lo = hi THEN lo
    ELSE LET mid == lo + ((hi - lo + 1) \div 2)
         IN  IF mid * mid <= n THEN SqrtBisect(n, mid, hi)
             ELSE SqrtBisect(n, lo, mid - 1)

\* (x**2+y**2)**.5 lies between SqrtLo and SqrtHi
SqrtLo(n) == SqrtBisect(n, 0, 2^15)
SqrtHi(n) == IF SqrtLo(n) * SqrtLo(n) = n THEN SqrtLo(n) ELSE SqrtLo(n) + 1

\* int(num_res[n]) with num_res = 0.5*np.deg2rad(blurdeg)*r/resolution, for r2 =
\* r*r in units squared and resolution in units; int() truncates toward zero.
\* The value is the one the lower and the upper bound of num_res agree on
\* (they are 1 part in 10^4 apart, the float is within 1 part in 10^15 of
\* num_res).
NumResInt(blurdeg, r2, resolution) ==
    LET den == 2 * RadDen * resolution
        lo  == (Abs(blurdeg) * BlurStepLo * SqrtLo(r2)) \div den
        hi  == (Abs(blurdeg) * BlurStepHi * SqrtHi(r2)) \div den
        int == CHOOSE k \in {lo} : k = hi
    IN  IF blurdeg >= 0 THEN int ELSE -int

\* N = 2*int(num_res[n])+1
SampleCount(blurdeg, r2, resolution) == 2 * NumResInt(blurdeg, r2, resolution) + 1

\* the angle of blur sample i (from 0) of N, 0.5*blurdeg*np.linspace(-1, 1, N)[i],
\* as a multiple of BlurStep
SampleAngle(blurdeg, N, i) == Exact(blurdeg * (2 * i - (N - 1)), 2 * (N - 1))

\* mutant: three samples taken for no blur
BlurOffsetsFromFive(x, y, blurdeg, N) ==
    IF N > 3
    THEN [i \in 1..N |->
            LET r == RotateFine(x, y, SampleAngle(blurdeg, N, i - 1))
            IN  <<r[1] - x, r[2] - y>>]
    ELSE <<<<0, 0>>>>

\* the offsets (dx, dy) of the blur samples of a star at the rotated position
\* (x, y) (lines 199-206): rx - x[n], ry - y[n] for N > 2, np.zeros(1) otherwise
BlurOffsets(x, y, blurdeg, N) ==
    IF N > 2
    THEN [i \in 1..N |->
            LET r == RotateFine(x, y, SampleAngle(blurdeg, N, i - 1))
            IN  <<r[1] - x, r[2] - y>>]
    ELSE <<<<0, 0>>>>

\* star_bg.image_cat(x0, y0, rolldeg, blurdeg, maxrad, resolution) -> WorkCat;
\* rnd[n] is the side of its number the float r2[n] of rotate_cat lies on
ImageCat(sb, x0, y0, rolldeg, blurdeg, maxrad, resolution, rnd) ==
    LET Nstars == RotateCatCount(sb, maxrad, rnd)
        xy  == [n \in 0..(Nstars - 1) |-> RotateCat(sb, n, rolldeg)]
        off == [n \in 0..(Nstars - 1) |->
                  BlurOffsets(xy[n][1], xy[n][2], blurdeg,
                              SampleCount(blurdeg,
                                          xy[n][1] * xy[n][1] + xy[n][2] * xy[n][2],
                                          resolution))]
    IN  WorkCat([n \in 1..Nstars |-> xy[n - 1][1] + x0],
                [n \in 1..Nstars |-> xy[n - 1][2] + y0],
                [n \in 1..Nstars |-> sb.fscale[n - 1]],
                [n \in 1..Nstars |-> [i \in 1..Len(off[n - 1]) |-> off[n - 1][i][1]]],
                [n \in 1..Nstars |-> [i \in 1..Len(off[n - 1]) |-> off[n - 1][i][2]]])

\* dist[n] < radius and dist[n] > radius, dist = (xpos**2 + ypos**2)**.5
\* (line 128), radius in pixels; rnd[n] is the side of its number the float
\* dist[n] lies on
DistBelow(sb, n, radius, rnd) ==
    /\ radius > 0
    /\ FloatLess(Dist2(sb)[n], (radius * UnitsPerPixel) * (radius * UnitsPerPixel),
                 rnd[n])
DistAbove(sb, n, radius, rnd) ==
    \/ radius < 0
    \/ FloatGreater(Dist2(sb)[n], (radius * UnitsPerPixel) * (radius * UnitsPerPixel),
                    rnd[n])

RECURSIVE BrightLoopFaintBreaks(_, _, _, _, _, _, _)
\* mutant: the loop left at the first faint star
BrightLoopFaintBreaks(sb, limflux, outradius, inradius, rnd, n, ids) ==
    IF n >= sb.catsize THEN ids
    ELSE IF sb.fscale[n] < limflux THEN ids
    ELSE IF DistBelow(sb, n, inradius, rnd)
         THEN BrightLoopFaintBreaks(sb, limflux, outradius, inradius, rnd, n + 1, ids)
    ELSE IF DistAbove(sb, n, outradius, rnd) THEN ids
    ELSE BrightLoopFaintBreaks(sb, limflux, outradius, inradius, rnd, n + 1,
                               Append(ids, n))

RECURSIVE BrightLoop(_, _, _, _, _, _, _)
\* the loop of bright_star_ids from n on (continue, continue, break, append)
BrightLoop(sb, limflux, outradius, inradius, rnd, n, ids) ==
    IF n >= sb.catsize THEN ids
    ELSE IF sb.fscale[n] < limflux
         THEN BrightLoop(sb, limflux, outradius, inradius, rnd, n + 1, ids)
    ELSE IF DistBelow(sb, n, inradius, rnd)
         THEN BrightLoop(sb, limflux, outradius, inradius, rnd, n + 1, ids)
    ELSE IF DistAbove(sb, n, outradius, rnd) THEN ids
    ELSE BrightLoop(sb, limflux, outradius, inradius, rnd, n + 1, Append(ids, n))

\* star_bg.bright_star_ids(limflux, outradius, inradius) -> ids
BrightStarIds(sb, limflux, outradius, inradius, rnd) ==
    BrightLoop(sb, limflux, outradius, inradius, rnd, 0, <<>>)

\* catalog files: sorted by distance with a tie in temperature, an unknown
\* temperature and a row exactly at fscalemin; sorted, at declination
\* acos(39/65), with a row brighter than the target; not sorted by distance;
\* without a magnitude column; sorted, with stars 62.5, 312.5 and 375 pixels
\* away; sorted, with two stars 26 pixels, one 65 pixels and one 78 pixels away
CatFiles ==
    { CatFile("MAG_CHEOPS", 0,
              << Row(0, 0, 0, 3, 5500, 11), Row(-65, 0, 7, 5, 3400, 12),
                 Row(0, 130, 13, 8, NotFinite, 13), Row(195, -260, 33, 4, 12000, 14) >>),
      CatFile("MAG_GAIA", 5,
              << Row(325, 0, 0, 0, 7000, 21), Row(0, 0, 20, -1, 9001, 22),
                 Row(325, 260, 26, 6, 4000, 23), Row(975, 0, 39, 2, NotFinite, 24),
                 Row(1300, 0, 52, 1, 5000, 25), Row(325, 650, 65, 3, 6500, 26) >>),
      CatFile("MAG_CHEOPS", 0,
              << Row(0, 0, 0, 0, 6000, 31), Row(-260, 0, 26, 1, 2000, 32),
                 Row(-65, 0, 7, 1, 4500, 33) >>),
      CatFile("MAG_V", 0, << Row(0, 0, 0, 0, 5000, 41) >>),
      CatFile("MAG_CHEOPS", 0,
              << Row(0, 0, 0, 0, 5800, 51), Row(-625, 0, 63, 2, 4800, 52),
                 Row(-3125, 0, 313, 1, 5000, 53), Row(0, 3750, 375, 2, 4000, 54) >>),
      CatFile("MAG_GAIA", 0,
              << Row(0, 0, 0, 0, 5800, 61), Row(-260, 0, 26, 1, 5000, 62),
                 Row(0, 260, 26, 3, 4000, 63), Row(-390, 520, 65, 1, 6000, 64),
                 Row(-780, 0, 78, 1, 5200, 65) >>) }

\* star_bg(starcatfile, psf_lib, maxrad, fscalemin)
CallStarBg ==
    /\ call.op = "init"
    /\ \E file \in CatFiles, maxrad \in {NoMaxRad, 0, 10, 30},
          fscalemin \in {FscaleMinDefault, 0, 100000, FluxDen} :
          LET cat == ReadStarcat(file, maxrad, fscalemin)
          IN  call' = [op |-> "star_bg", file |-> file, maxrad |-> maxrad,
                       fscalemin |-> fscalemin, raised |-> cat.raised, cat |-> cat,
                       sb |-> IF cat.raised THEN None ELSE StarBg(cat)]
    /\ UNCHANGED <<inp, run, heap, fits>>

\* (rolldeg, blurdeg, resolution) of the calls of image_cat: no blur, a
\* negative blur angle, and blur angles of 2, 4, 6 and 8 steps at a resolution
\* of 201 pixels, for which num_res of the star 312.5 pixels away is 1.0005,
\* 2.0009, 3.0014 and 4.0019, and (for 2 and 4 steps) of 201.1 pixels, for
\* which it is 0.99997 and 1.99994
ImageCatAngles ==
    ({0, 4, 9, -9} \X {0, -4} \X {ResolutionDefault, 2010})
       \cup ({0, 9, -9} \X {2, 4} \X {2010, 2011})
       \cup ({0, 9, -9} \X {6, 8} \X {2010})

\* sb.image_cat(x0, y0, rolldeg, blurdeg, maxrad, resolution); blurdeg in steps
\* of BlurStep, resolution in units
CallImageCat ==
    /\ call.op = "star_bg"
    /\ ~call.raised
    /\ \E pos \in {<<10, 5>>, <<1000, 1000>>}, ang \in ImageCatAngles,
          maxrad \in {NoMaxRad, 0, 26, 65, 350} :
          \E rnd \in SignsOn(0..(call.sb.catsize - 1), AtRadius(call.sb, {maxrad})) :
             call' = [op |-> "image_cat", sb |-> call.sb, x0 |-> pos[1], y0 |-> pos[2],
                      rolldeg |-> ang[1], blurdeg |-> ang[2], maxrad |-> maxrad,
                      resolution |-> ang[3], rnd |-> rnd,
                      res |-> ImageCat(call.sb, pos[1], pos[2], ang[1], ang[2], maxrad,
                                       ang[3], rnd)]
    /\ UNCHANGED <<inp, run, heap, fits>>

\* sb.bright_star_ids(limflux, outradius, inradius)
CallBrightStarIds ==
    /\ call.op = "star_bg"
    /\ ~call.raised
    /\ \E limflux \in {0, 10000, 100000, FluxDen}, outradius \in {-1, 0, 20, 26, 40, 65},
          inradius \in {0, 10, 26, 30} :
          \E rnd \in SignsOn(0..(call.sb.catsize - 1),
                             AtRadius(call.sb, {outradius, inradius})) :
             call' = [op |-> "bright_star_ids", sb |-> call.sb, limflux |-> limflux,
                      outradius |-> outradius, inradius |-> inradius, rnd |-> rnd,
                      res |-> BrightStarIds(call.sb, limflux, outradius, inradius, rnd)]
    /\ UNCHANGED <<inp, run, heap, fits>>

NextStarBg == CallStarBg \/ CallImageCat \/ CallBrightStarIds

SpecStarBg == InitPure /\ [][NextStarBg]_vars

----------------------------------------------------------------------------
(* Claims about star_bg *)

\* the file's rows come by increasing distance
FileSorted(file) ==
    \A i \in 1..Len(file.rows), j \in 1..Len(file.rows) :
       i < j => file.rows[i].distance <= file.rows[j].distance

\* the number N of leading rows read_starcat looks at
RowsRead(file, maxrad) ==
    IF maxrad = NoMaxRad THEN Len(file.rows)
    ELSE IF FileSorted(file)
         THEN Cardinality({i \in 1..Len(file.rows) : file.rows[i].distance < maxrad})
         ELSE SearchSorted([i \in 1..Len(file.rows) |-> file.rows[i].distance], maxrad)

\* the rows among the first N whose flux scale is strictly above fscalemin
RowsKept(file, maxrad, fscalemin) ==
    { i \in 1..RowsRead(file, maxrad) :
         10 ^ (6 - (file.rows[i].MAG - file.rows[1].MAG)) > fscalemin }

\* C11: after read_starcat the five output arrays have equal length and hold,
\* in catalog order, exactly the entries of those of the first N catalog rows
\* whose flux scale is strictly above fscalemin; the target row (row 0) has
\* flux scale exactly 1.0.
C11_FilteredInCatalogOrder ==
    (call.op = "star_bg" /\ ~call.raised) =>
       LET file == call.file
           keep == RowsKept(file, call.maxrad, call.fscalemin)
           row(k) == CHOOSE i \in keep : Cardinality({j \in keep : j < i}) = k - 1
           out  == call.cat
       IN  /\ Len(out.xpos) = Cardinality(keep)
           /\ Len(out.ypos) = Len(out.xpos) /\ Len(out.fscale) = Len(out.xpos)
           /\ Len(out.Teff) = Len(out.xpos) /\ Len(out.gaiaID) = Len(out.xpos)
           /\ \A k \in 1..Len(out.xpos) :
                 /\ out.gaiaID[k] = file.rows[row(k)].ID
                 /\ out.Teff[k] = file.rows[row(k)].T_EFF
                 /\ out.fscale[k] = 10 ^ (6 - (file.rows[row(k)].MAG - file.rows[1].MAG))
                 /\ out.xpos[k] * TrigDen
                       = (file.rows[1].RA - file.rows[row(k)].RA) * Cos(file.dec0)
                 /\ out.ypos[k] = file.rows[row(k)].DEC - file.rows[1].DEC
           /\ (1 \in keep) => (out.fscale[1] = FluxDen /\ out.gaiaID[1] = file.rows[1].ID)

\* a catalog cut by maxrad, with a row exactly at fscalemin dropped and the
\* target kept first
C11_Witness ==
    /\ call.op = "star_bg" /\ ~call.raised
    /\ call.maxrad = 30 /\ call.fscalemin = FscaleMinDefault
    /\ Len(call.file.rows) = 4
    /\ \E i \in 1..3 : 10 ^ (6 - (call.file.rows[i].MAG - call.file.rows[1].MAG))
                          = call.fscalemin
    /\ Len(call.cat.fscale) = 2
    /\ call.cat.fscale[1] = FluxDen

\* C17: assign_psf gives every catalog star one index in 0..5: for a finite
\* temperature the index of the representative temperature with the smallest
\* absolute difference, the lowest index on a tie; for a non-finite
\* temperature the default index 2.
C17_NearestTeffBin ==
    (call.op = "star_bg" /\ ~call.raised) =>
       \A n \in 0..(call.sb.catsize - 1) :
          LET teff == call.sb.Teff[n]
              id   == call.sb.psf_ids[n]
          IN  /\ id \in 0..5
              /\ teff = NotFinite => id = 2
              /\ teff # NotFinite =>
                    /\ \A j \in 1..6 :
                          Abs(PsfModTeff[id + 1] - teff) <= Abs(PsfModTeff[j] - teff)
                    /\ \A j \in 1..id :
                          Abs(PsfModTeff[j] - teff) > Abs(PsfModTeff[id + 1] - teff)

\* a catalog with a tie between two bins, an unknown temperature, and a
\* temperature beyond the hottest bin
C17_Witness ==
    /\ call.op = "star_bg" /\ ~call.raised
    /\ call.sb.catsize = 4
    /\ call.sb.Teff[0] = 5500 /\ call.sb.psf_ids[0] = 2
    /\ call.sb.Teff[2] = NotFinite /\ call.sb.psf_ids[2] = 2
    /\ call.sb.Teff[3] = 12000 /\ call.sb.psf_ids[3] = 5

\* the rotated position, relative to the target, of star n of the call c of
\* image_cat
Rotated(c, n) ==
    <<Exact(c.sb.xpos[n] * Cos(c.rolldeg) + c.sb.ypos[n] * Sin(c.rolldeg), TrigDen),
      Exact(c.sb.ypos[n] * Cos(c.rolldeg) - c.sb.xpos[n] * Sin(c.rolldeg), TrigDen)>>

\* floor(num_res) for star n of the call c of image_cat, num_res =
\* 0.5*blurdeg*r/resolution with blurdeg in radians: from the lower bound of
\* num_res for a blur angle that is not negative, -1 or less otherwise (0 for
\* the target, at r = 0)
FloorNumRes(c, n) ==
    LET d  == Rotated(c, n)
        r2 == d[1] * d[1] + d[2] * d[2]
    IN  IF c.blurdeg >= 0
        THEN (c.blurdeg * BlurStepLo * SqrtLo(r2)) \div (2 * RadDen * c.resolution)
        ELSE IF r2 = 0 THEN 0 ELSE -1

\* C18: in the working catalog built by image_cat every star has as many dx as
\* dy offsets, an odd number that is at least 1: 2*floor(num_res)+1 when that
\* exceeds 2, otherwise 1 with the single offset (0, 0); the catalog and its
\* x, y, fscale, dxs, dys, coeff lists are no longer than the filtered catalog;
\* every coeff is None.
C18_BlurSampleCounts ==
    call.op = "image_cat" =>
       LET wc == call.res
           ns == 0..(wc.catsize - 1)
       IN  /\ wc.catsize <= call.sb.catsize
           /\ DOMAIN wc.x = ns /\ DOMAIN wc.y = ns /\ DOMAIN wc.fscale = ns
           /\ DOMAIN wc.dxs = ns /\ DOMAIN wc.dys = ns /\ DOMAIN wc.coeff = ns
           /\ \A n \in ns :
                 /\ IsNone(wc.coeff[n])
                 /\ Len(wc.dxs[n]) = Len(wc.dys[n])
                 /\ Len(wc.dxs[n]) >= 1
                 /\ Len(wc.dxs[n]) % 2 = 1
                 /\ IF 2 * FloorNumRes(call, n) + 1 > 2
                    THEN Len(wc.dxs[n]) = 2 * FloorNumRes(call, n) + 1
                    ELSE wc.dxs[n] = <<0>> /\ wc.dys[n] = <<0>>

\* a working catalog cut by maxrad, with an unblurred star besides the target,
\* and a star blurred over nine samples that lie off the star on both sides
C18_Witness ==
    /\ call.op = "image_cat"
    /\ 0 < call.res.catsize /\ call.res.catsize < call.sb.catsize
    /\ \E n \in 1..(call.res.catsize - 1) : call.res.dxs[n] = <<0>>
    /\ \E n \in 0..(call.res.catsize - 1) :
          /\ Len(call.res.dxs[n]) = 9
          /\ call.res.dxs[n][5] = 0 /\ call.res.dys[n][5] = 0
          /\ call.res.dys[n][1] # 0 /\ call.res.dys[n][1] = -call.res.dys[n][9]

\* the float dist[n] of the call c of bright_star_ids against a radius in
\* pixels: -1 below it, 0 equal to it, 1 above it
DistSide(c, n, radius) ==
    LET d2 == c.sb.xpos[n] * c.sb.xpos[n] + c.sb.ypos[n] * c.sb.ypos[n]
        R2 == (radius * UnitsPerPixel) * (radius * UnitsPerPixel)
    IN  IF radius < 0 THEN 1
        ELSE IF d2 < R2 THEN -1
        ELSE IF d2 > R2 THEN 1
        ELSE c.rnd[n]

\* the catalog is sorted by increasing distance from the target, as far as the
\* radii of the call c can tell
SortedByDistance(c) ==
    \A n \in 0..(c.sb.catsize - 1), m \in 0..(c.sb.catsize - 1) :
       n < m =>
          /\ c.sb.xpos[n] * c.sb.xpos[n] + c.sb.ypos[n] * c.sb.ypos[n]
                <= c.sb.xpos[m] * c.sb.xpos[m] + c.sb.ypos[m] * c.sb.ypos[m]
          /\ DistSide(c, n, c.outradius) <= DistSide(c, m, c.outradius)
          /\ DistSide(c, n, c.inradius) <= DistSide(c, m, c.inradius)

\* star n is bright enough and between the two radii
Qualifies(c, n) ==
    /\ c.sb.fscale[n] >= c.limflux
    /\ DistSide(c, n, c.inradius) >= 0
    /\ DistSide(c, n, c.outradius) <= 0

\* C19: for a catalog sorted by increasing distance, bright_star_ids returns in
\* increasing order exactly the indices of the stars with flux scale >= limflux
\* and inradius <= distance <= outradius; the early exit drops none of them.
C19_BrightIdsExact ==
    (call.op = "bright_star_ids" /\ SortedByDistance(call)) =>
       /\ \A i \in 1..Len(call.res), j \in 1..Len(call.res) :
             i < j => call.res[i] < call.res[j]
       /\ {call.res[i] : i \in 1..Len(call.res)}
             = {n \in 0..(call.sb.catsize - 1) : Qualifies(call, n)}

\* a sorted catalog with a star exactly at inradius and a star exactly at
\* outradius, both returned, and the loop left at a bright star beyond
\* outradius before the end of the catalog
C19_Witness ==
    /\ call.op = "bright_star_ids" /\ SortedByDistance(call)
    /\ call.inradius > 0 /\ call.outradius > call.inradius
    /\ \E i \in 1..Len(call.res) :
          /\ call.rnd[call.res[i]] = 0
          /\ call.res[i] \in AtRadius(call.sb, {call.inradius})
    /\ \E i \in 1..Len(call.res) :
          /\ call.rnd[call.res[i]] = 0
          /\ call.res[i] \in AtRadius(call.sb, {call.outradius})
    /\ \E n \in 0..(call.sb.catsize - 1) :
          call.sb.fscale[n] >= call.limflux /\ DistSide(call, n, call.outradius) = 1

----------------------------------------------------------------------------
(* Claims about the order of the steps of refine_bg_model *)

\* the residual and the buffer of every call that is about to fit star k
ResidualOnPrefix ==
    \A r \in DOMAIN run :
       \A pre \in {RunPrefix(r, run[r].k - 1)} :
          LET st == run[r]
          IN  /\ st.pc = "fit" =>
                   LET star_id == st.starids[st.k]
                       img == MakeSingleStarFrame(FrameDims,
                                                  Deref(pre.st.work_cat, pre.h),
                                                  inp.psf_ids[star_id], star_id, TRUE)
                   IN  /\ \A py \in 1..FrameH, px \in 1..FrameW :
                             /\ ModelOf(r)[py][px]
                                   = PixSub(pre.h[pre.st.model][py][px],
                                            PixMul(inp.psf_norm, img[py][px]))
                             /\ st.fit_frame[py][px]
                                   = PixSub(inp.data_frame[py][px], ModelOf(r)[py][px])
                       /\ FitArgs(st, heap).fit_frame = st.fit_frame
              /\ st.pc \in {"subtract", "done"} => ModelOf(r) = pre.h[pre.st.model]

\* one step of one call: subtract for star k, then fit and add back for star
\* k (which alone moves on to star k+1), or leave
StepInOrder ==
    \A r \in DOMAIN run :
       LET a == run[r]
           b == run'[r]
       IN  a # b =>
             \/ /\ a.pc = "subtract" /\ a.k <= Len(a.starids)
                /\ b.pc = "fit" /\ b.k = a.k
                /\ Deref(b.work_cat, heap') = Deref(a.work_cat, heap)
                /\ fits' = fits
             \/ /\ a.pc = "fit" /\ b.pc = "subtract" /\ b.k = a.k + 1
                /\ b.fit_frame = a.fit_frame
                /\ \E c \in fits' : c.args = FitArgs(a, heap) /\ ~c.out.raised
             \/ /\ a.pc = "fit" /\ b.pc = "raised" /\ b.k = a.k
             \/ /\ a.pc = "subtract" /\ a.k = Len(a.starids) + 1
                /\ b = [a EXCEPT !.pc = "done"]

\* C12: refine_bg_model processes the stars in the order of starids, and for
\* each star subtracts its current contribution, then fits, then adds the
\* reconstruction back: the residual passed to the fit for star k is data_frame
\* minus the model buffer as left by the subtraction for star k on top of the
\* re-added reconstructions of the stars before it, and no step of star k+1
\* happens before star k's reconstruction is added back.
C12_SubtractFitAddInOrder == [](ResidualOnPrefix) /\ [][StepInOrder]_vars

\* the second star of the list is about to be fitted, its contribution is out
\* of the buffer, and the first star's reconstruction has changed the buffer
C12_Witness ==
    /\ run[1].pc = "fit"
    /\ run[1].k = 2
    /\ ModelOf(1) # RunPrefix(1, 1).h[run[1].model]
    /\ RunPrefix(1, 1).h[run[1].model] # inp.model
    /\ run[1].fit_frame # inp.data_frame

----------------------------------------------------------------------------
(* Claims about the call of the fit and the catalog update *)

\* the step of call r in which a fit succeeded and its result was added back
Refined(r) == run[r].pc = "fit" /\ run'[r].pc = "subtract"

\* the catalog update of a successful refinement
RescaledToKernelSum ==
    \A r \in DOMAIN run :
       Refined(r) =>
          LET a       == run[r]
              star_id == a.starids[a.k]
              kmat    == (CHOOSE c \in fits' : c.args = FitArgs(a, heap)).out.kmat
              knorm   == SumSeq(kmat)
              fscale  == heap'[a.work_cat.fscale][star_id]
              c       == heap'[a.work_cat.coeff][star_id]
          IN  /\ fscale # NaN
              /\ fscale * inp.psf_norm = knorm
              /\ ~IsNone(c)
              /\ Len(c.num) = Len(KernSel)
              /\ (c.den = 0) = (knorm = 0)
              /\ \A n \in 1..Len(KernSel) :
                    \E m \in 1..Len(KernGrid) :
                       /\ KernGrid[m] = KernSel[n]
                       /\ KernGrid[m][1] * KernGrid[m][1]
                             + KernGrid[m][2] * KernGrid[m][2] <= KrnRad * KrnRad
                       /\ c.num[n] * knorm = kmat[m] * c.den
              /\ \A m \in 1..Len(KernGrid) :
                    (KernGrid[m][1] * KernGrid[m][1]
                        + KernGrid[m][2] * KernGrid[m][2] <= KrnRad * KrnRad)
                       => \E n \in 1..Len(KernSel) : KernSel[n] = KernGrid[m]

\* C14 (as stated): after a successful refinement of a star its working
\* flux_scale equals kernel_sum / psf_norm, whatever it was before, and the
\* stored coeff is the fitted kernel restricted to the disc x^2 + y^2 <=
\* krn_rad^2, divided by the sum of the whole fitted kernel.
C14_RescaledToKernelSum == [][RescaledToKernelSum]_vars

\* the float dist of star star_id of catalog wc from the centre of a frame of
\* the given shape exceeds half its smaller side; side is the side of that
\* half the float lies on when the two are equal in exact numbers
FarFromCentre(wc, star_id, shape, side) ==
    LET d2 == (2 * wc.x[star_id] - shape[2] * UnitsPerPixel)
                   * (2 * wc.x[star_id] - shape[2] * UnitsPerPixel)
                + (2 * wc.y[star_id] - shape[1] * UnitsPerPixel)
                   * (2 * wc.y[star_id] - shape[1] * UnitsPerPixel)
        m2 == (Min(shape[1], shape[2]) * UnitsPerPixel)
                 * (Min(shape[1], shape[2]) * UnitsPerPixel)
    IN  d2 > m2 \/ (d2 = m2 /\ side = 1)

\* C15: the fit radius passed to the fit routine is the star's adaptive PSF
\* radius psf_radii(flux_scale) when the star's distance from the frame centre
\* (0.5*width, 0.5*height) exceeds half the smaller frame dimension, and the
\* fixed default 25 otherwise; the default is never larger than the adaptive
\* radius.
C15_FitRadius ==
    \A r \in DOMAIN run :
       run[r].pc = "fit" =>
          LET st      == run[r]
              star_id == st.starids[st.k]
              psf_rad == PsfRadii(CatOf(r).fscale[star_id])
              fitrad  == FitArgs(st, heap).fitrad
              far     == FarFromCentre(CatOf(r), star_id, FrameShape(inp.data_frame),
                                       inp.dist_rnd[star_id])
          IN  /\ far => fitrad = psf_rad
              /\ ~far => fitrad = 25
              /\ 25 <= psf_rad

\* a star at distance 0.5*min(shape) from the centre, which does not exceed
\* it, is about to be fitted with the default radius, smaller than its
\* adaptive radius
C15_Witness ==
    /\ run[1].pc = "fit"
    /\ run[1].starids[run[1].k] \in OnHalfSide(inp.work_cat, FrameDims)
    /\ inp.dist_rnd[run[1].starids[run[1].k]] = 0
    /\ FitArgs(run[1], heap).fitrad = 25
    /\ PsfRadii(CatOf(1).fscale[run[1].starids[run[1].k]]) > 25

\* the fit is called with one basis function, the star's own MultiPSF, and
\* without a background term
OneBasisNoBackground(r) ==
    LET st      == run[r]
        star_id == st.starids[st.k]
        a       == FitArgs(st, heap)
    IN  /\ Len(a.psf) = 1
        /\ a.psf[1].psf_mod = inp.psf_ids[star_id]
        /\ a.psf[1].dxs = CatOf(r).dxs[star_id]
        /\ a.psf[1].dys = CatOf(r).dys[star_id]
        /\ a.xc = CatOf(r).x[star_id] /\ a.yc = CatOf(r).y[star_id]
        /\ a.bg_fit = -1

\* C16 (as stated): in every call of the fit routine the default evaluation
\* radius is larger than the fit radius, there is one basis function and
\* background fitting is disabled.
C16_DefradLargerThanFitrad ==
    \A r \in DOMAIN run :
       run[r].pc = "fit" =>
          /\ FitArgs(run[r], heap).defrad > FitArgs(run[r], heap).fitrad
          /\ OneBasisNoBackground(r)

\* C16 (amended): in every call of the fit routine the default evaluation
\* radius is the star's adaptive PSF radius, which is never smaller than the
\* fit radius and equals it for every star far from the frame centre and for
\* every star whose adaptive radius is 25; there is exactly one basis function
\* (the star's MultiPSF built from its own blur offsets) and background
\* fitting is disabled (bg_fit = -1).
C16_DefradIsPsfRadius ==
    \A r \in DOMAIN run :
       run[r].pc = "fit" =>
          LET st      == run[r]
              star_id == st.starids[st.k]
              psf_rad == PsfRadii(CatOf(r).fscale[star_id])
              a       == FitArgs(st, heap)
          IN  /\ a.defrad = psf_rad
              /\ a.defrad >= a.fitrad
              /\ (FarFromCentre(CatOf(r), star_id, FrameShape(inp.data_frame),
                                inp.dist_rnd[star_id])
                     \/ psf_rad = 25) => a.defrad = a.fitrad
              /\ OneBasisNoBackground(r)

\* a star far from the centre is about to be fitted: the evaluation radius
\* equals the fit radius
C16_Witness ==
    /\ run[1].pc = "fit"
    /\ run[1].k = 2
    /\ FarFromCentre(CatOf(1), run[1].starids[2], FrameDims,
                     inp.dist_rnd[run[1].starids[2]])
    /\ FitArgs(run[1], heap).defrad = FitArgs(run[1], heap).fitrad
    /\ FitArgs(run[1], heap).defrad > 25

----------------------------------------------------------------------------
(* Claims about renderings of the working catalog after refine_bg_model *)

\* the catalog the renderers are given: the one the call of refine_bg_model left
Rendered == CatOf(1)

\* star n alone on an empty frame, from the kernel footprint (psf_fit_image
\* over the stored coefficients) or from the plain blurred PSF (psf_image)
StarFootprint(n, kernel) ==
    AddStar(ZeroFrame(FrameDims), Rendered.fscale[n], Rendered.x[n], Rendered.y[n],
            Rendered.dxs[n], Rendered.dys[n], inp.psf_ids[n],
            IF kernel THEN <<Rendered.coeff[n], Kx, Ky>> ELSE None,
            PsfRadii(Rendered.fscale[n]))

\* star n has been refined: its coefficients are set
HasCoeff(n) == ~IsNone(Rendered.coeff[n])

\* C13 (as stated): once a star is refined, every later rendering of it by
\* make_bg_frame or make_single_star_frame uses the kernel footprint; a star
\* never refined is rendered with the plain blurred PSF.
C13_RefinedAlwaysKernel ==
    /\ call.op = "make_single_star_frame" =>
          call.res = StarFootprint(call.star_id, HasCoeff(call.star_id))
    /\ call.op = "make_bg_frame" =>
          \A py \in 1..FrameH, px \in 1..FrameW :
             LET S[n \in 0..Rendered.catsize] ==
                    IF n = 0 THEN 0
                    ELSE IF (n - 1) \in call.skip THEN S[n - 1]
                    ELSE PixAdd(S[n - 1], StarFootprint(n - 1, HasCoeff(n - 1))[py][px])
             IN  call.res[py][px] = S[Rendered.catsize]

----------------------------------------------------------------------------
(* Claims about what refine_bg_model leaves alone *)

\* the stars named in the list of call r
Named(r) == { run[r].starids[i] : i \in 1..Len(run[r].starids) }

\* what a call has not touched, at any point of its run
OnlyNamedStarsTouched ==
    \A r \in DOMAIN run :
       /\ CatOf(r).catsize = inp.work_cat.catsize
       /\ CatOf(r).x = inp.work_cat.x /\ CatOf(r).y = inp.work_cat.y
       /\ CatOf(r).dxs = inp.work_cat.dxs /\ CatOf(r).dys = inp.work_cat.dys
       /\ \A n \in (0..(inp.work_cat.catsize - 1)) \ Named(r) :
             /\ CatOf(r).fscale[n] = inp.work_cat.fscale[n]
             /\ CatOf(r).coeff[n] = inp.work_cat.coeff[n]
       /\ heap[run[r].data_frame] = inp.data_frame
       /\ heap[run[r].noise] = inp.noise
       /\ heap[run[r].mask] = inp.mask
       /\ heap[SharedRef("star_bg.fscale")] = inp.work_cat.fscale

\* C20: after any run of refine_bg_model over any starids list, only the model
\* buffer and the flux_scale and coeff of the stars named in starids have
\* changed: the working catalog's positions and blur offsets, the flux_scale
\* and coeff of every other star, the data frame, the noise frame, the mask and
\* the static catalog's flux scales are unchanged.
C20_OnlyNamedStarsTouched == OnlyNamedStarsTouched

\* a run has returned after refining one star twice and another once: buffer,
\* flux scales and coefficients of the two have changed, and the third star
\* was left alone
C20_Witness ==
    /\ run[1].pc = "done"
    /\ Len(run[1].starids) = 3
    /\ Cardinality(Named(1)) = 2
    /\ ModelOf(1) # inp.model
    /\ \A n \in Named(1) :
          /\ CatOf(1).fscale[n] # inp.work_cat.fscale[n]
          /\ CatOf(1).coeff[n] # inp.work_cat.coeff[n]
====
